---------------------------- MODULE Spec2Model ----------------------------
(***************************************************************************)
(* A model of erasure_pantheon_analysis.py: the two cosmology models, the  *)
(* luminosity distance and distance modulus, the chi-squared evaluator,    *)
(* the two fits, the statistical comparison and the pipeline of main().    *)
(*                                                                         *)
(* Floating point values are records [k, v]:                               *)
(*   k = "num"   a finite number, v in the fixed-point unit of its kind    *)
(*   k = "nan"   not-a-number            k = "inf" / "ninf"  +/- infinity  *)
(*   k = "big"   the float 1e10 (larger than every "num" of the model)     *)
(*   k = "raise" an exception propagating out of the call                  *)
(* Units: redshift 1e-6; densities and scale factor powers 1e-2;           *)
(* E(z) 1e-3; H0 km/s/Mpc; c 100 km/s; distances 1e-4 Mpc; distance        *)
(* moduli and their errors 0.1 mag; chi-squared 1.                         *)
(***************************************************************************)
EXTENDS Integers, Sequences, FiniteSets, TLC

VARIABLES
    pc,        \* control location of the specification being run
    inst,      \* the model instance a call is made on
    zarg,      \* the redshift a call is made with
    ret,       \* what the last call returned
    sol,       \* what solve_ivp returned to the last construction
    raw,       \* the input file: whether it parses, its columns, its rows
    data,      \* the dataset (z, mu, err) the loader returned
    de,        \* the state of the running differential_evolution
    lcdm,      \* what fit_lcdm returned
    erasure,   \* what fit_erasure returned
    cmp,       \* what model_comparison returned and printed
    verdict,   \* the final verdict main printed
    stream,    \* the draws RandomState(42) gives differential_evolution
    calls      \* the calls of the fits and of model_comparison that returned

vars == <<pc, inst, zarg, ret, sol, raw, data, de, lcdm, erasure, cmp, verdict, stream,
          calls>>

---------------------------------------------------------------------------
(* Floating point values *)

Num(n) == [k |-> "num", v |-> n]
NaN == [k |-> "nan", v |-> 0]
PInf == [k |-> "inf", v |-> 0]
NInf == [k |-> "ninf", v |-> 0]
Raised == [k |-> "raise", v |-> 0]

IsNum(x) == x.k = "num"
IsNaN(x) == x.k = "nan"
IsInf(x) == x.k \in {"inf", "ninf"}
IsRaised(x) == x.k = "raise"

\* the float 1e10
Big == [k |-> "big", v |-> 0]

\* a + b
AddF(a, b) ==
    IF IsNaN(a) \/ IsNaN(b) THEN NaN
    ELSE IF IsInf(a) /\ IsInf(b) THEN (IF a.k = b.k THEN a ELSE NaN)
    ELSE IF IsInf(a) THEN a
    ELSE IF IsInf(b) THEN b
    ELSE Num(a.v + b.v)

\* -a
NegF(a) ==
    CASE a.k = "inf" -> NInf
      [] a.k = "ninf" -> PInf
      [] a.k = "num" -> Num(0 - a.v)
      [] OTHER -> a

\* a - b
SubF(a, b) == AddF(a, NegF(b))

\* n * a for an integer n > 0
ScaleF(n, a) == IF IsNum(a) THEN Num(n * a.v) ELSE a

\* a < b: false when either is nan; 1e10 is above every finite number of the
\* model
LtF(a, b) ==
    CASE IsNaN(a) \/ IsNaN(b) -> FALSE
      [] a.k = b.k /\ a.k # "num" -> FALSE
      [] a.k = "ninf" \/ b.k = "inf" -> TRUE
      [] a.k = "inf" \/ b.k = "ninf" -> FALSE
      [] a.k = "big" -> FALSE
      [] b.k = "big" -> TRUE
      [] OTHER -> a.v < b.v

\* a > n for an integer n
GtN(a, n) == LtF(Num(n), a)

\* a * b / d rounded down, without forming a * b
MulDiv(a, b, d) == (a \div d) * b + ((a % d) * b) \div d

RECURSIVE SqrtSearch(_, _, _)
SqrtSearch(n, lo, hi) ==
    IF lo >= hi THEN lo
    ELSE LET mid == (lo + hi + 1) \div 2
         IN IF mid * mid <= n THEN SqrtSearch(n, mid, hi)
                              ELSE SqrtSearch(n, lo, mid - 1)

\* np.sqrt: nan for a negative radicand (a warning, not an exception)
NpSqrt(n) == IF n < 0 THEN NaN ELSE Num(SqrtSearch(n, 0, 46340))

\* 10^(d/10) * 1000 for d = 0..9
Mantissa10 == <<1000, 1259, 1585, 1996, 2512, 3163, 3982, 5012, 6310, 7944>>

RECURSIVE Pow10(_)
Pow10(e) == IF e = 0 THEN 1 ELSE 10 * Pow10(e - 1)

\* whether 10^(t/10) <= n, for t in 0..93
TenthPowerLeq(t, n) ==
    LET e == t \div 10
        m == Mantissa10[(t % 10) + 1]
    IN IF e >= 3 THEN m <= n \div Pow10(e - 3)
                 ELSE (m + Pow10(3 - e) - 1) \div Pow10(3 - e) <= n

\* np.log10 of a distance, in tenths: the distance is in 1e-4 Mpc, so its log10
\* in Mpc is 4 less
NpLog10(d) ==
    IF d < 0 THEN NaN
    ELSE IF d = 0 THEN NInf
    ELSE LET t == CHOOSE t \in 0..93 :
                      /\ TenthPowerLeq(t, d)
                      /\ (t = 93 \/ ~TenthPowerLeq(t + 1, d))
         IN Num(t - 40)

---------------------------------------------------------------------------
(* Bounds of the model *)

\* samples of the density grid (500 in the code)
NGrid == 2
\* objective evaluations of one differential_evolution run
MaxEvals == 2
\* rows of the input file
MaxRows == 2

\* largest chi-squared handed to model_comparison on its own
MaxChi == 25

\* times the analysis is repeated on one dataset
MaxRuns == 2

---------------------------------------------------------------------------
(* Part 1: the cosmology models *)

\* speed of light, in 100 km/s
c == 2997

\* luminosity_distance takes its linear branch below 1e-5
LinearBelow == 10

NoGrid == <<>>

\* CosmologyModel.__init__: the base class, whose E raises NotImplementedError
CosmologyModel(H0) ==
    [cls |-> "CosmologyModel", H0 |-> H0, Om0 |-> 0, Ode0 |-> 0, beta |-> 0,
     alpha |-> 0, failed |-> FALSE, z_grid |-> NoGrid, Om_grid |-> NoGrid,
     Ode_grid |-> NoGrid]

LambdaCDM(Om0, H0) ==
    [cls |-> "LambdaCDM", H0 |-> H0, Om0 |-> Om0, Ode0 |-> 100 - Om0, beta |-> 0,
     alpha |-> 0, failed |-> FALSE, z_grid |-> NoGrid, Om_grid |-> NoGrid,
     Ode_grid |-> NoGrid]

\* (1+z)^3 in 1e-4, from z in 1e-6
Cube1pz(z) ==
    LET opz == (1000000 + z) \div 10000
    IN (opz * opz * opz) \div 100

\* sqrt(Om * (1+z)^3 + Ode), in 1e-3
SqrtDensity(Om, Ode, z) == NpSqrt(Om * Cube1pz(z) + Ode * 10000)

\* numpy's binary_search_with_guess, as a 1-based index: 0 is "before the
\* first", Len + 1 is "after the last". Keys outside the range are settled
\* first, from the two ends of the array as they are stored; only then is the
\* array searched for the last entry not above the key.
BinarySearch(key, arr) ==
    LET n == Len(arr)
    IN IF key > arr[n] THEN n + 1
       ELSE IF key < arr[1] THEN 0
       ELSE IF \E i \in 1..(n - 1) : key < arr[i + 1]
            THEN CHOOSE i \in 1..(n - 1) :
                     /\ key < arr[i + 1]
                     /\ \A h \in 1..(i - 1) : key >= arr[h + 1]
            ELSE n

\* the value np.interp gives once the search has placed x at index j
InterpAt(j, x, xp, fp, left, right) ==
    IF j = 0 THEN left
    ELSE IF j = Len(xp) + 1 THEN right
    ELSE IF j = Len(xp) THEN fp[j]
    ELSE IF xp[j] = x THEN fp[j]
    ELSE fp[j] + ((fp[j + 1] - fp[j]) * ((x - xp[j]) \div 1000))
                     \div ((xp[j + 1] - xp[j]) \div 1000)

\* np.interp(x, xp, fp, left, right) for a scalar x
NpInterp(x, xp, fp, left, right) == InterpAt(BinarySearch(x, xp), x, xp, fp, left, right)

\* a PowerLawErasure.E that uses the closed form of Om0 throughout
EClosedForm(self, z) ==
    IF self.cls = "CosmologyModel" THEN Raised ELSE SqrtDensity(self.Om0, self.Ode0, z)

\* E(z) of each class. PowerLawErasure.E falls back to the closed form when
\* the interpolation raises (no grid to index).
E(self, z) ==
    CASE self.cls = "CosmologyModel" -> Raised
      [] self.cls = "LambdaCDM" -> SqrtDensity(self.Om0, self.Ode0, z)
      [] self.cls = "PowerLawErasure" ->
            IF Len(self.z_grid) = 0 \/ Len(self.Om_grid) = 0 \/ Len(self.Ode_grid) = 0
            THEN SqrtDensity(self.Om0, self.Ode0, z)
            ELSE SqrtDensity(NpInterp(z, self.z_grid, self.Om_grid, self.Om_grid[1],
                                      self.Om_grid[Len(self.z_grid)]),
                             NpInterp(z, self.z_grid, self.Ode_grid, self.Ode_grid[1],
                                      self.Ode_grid[Len(self.z_grid)]),
                             z)

\* the points at which the quadrature rule samples its integrand
QuadNodes(z) == <<0, z \div 2, z>>

\* quad(lambda zp: 1/E(zp), 0, z): [val, evals]. An exception of the
\* integrand propagates; a nan sample makes the result nan; 1.0/E is inf for
\* E = 0. Whether the tolerances were met (ier) is not part of the result:
\* quad reports it as a warning only.
QuadRule(z, nodes, es) ==
    IF \E i \in 1..3 : IsRaised(es[i])
    THEN [val |-> Raised,
          evals |-> {nodes[i] : i \in {h \in 1..3 : \A g \in 1..(h - 1) : ~IsRaised(es[g])}}]
    ELSE [val |-> IF \E i \in 1..3 : IsNaN(es[i]) THEN NaN
                  ELSE IF \E i \in 1..3 : es[i].v = 0 THEN PInf
                  ELSE Num(MulDiv(z, (1000000 \div es[1].v)
                                     + 4 * (1000000 \div es[2].v)
                                     + (1000000 \div es[3].v), 6000)),
          evals |-> {nodes[i] : i \in 1..3}]

Quad(self, z) == QuadRule(z, QuadNodes(z), [i \in 1..3 |-> E(self, QuadNodes(z)[i])])

\* the linear branch without the division by H0
LinearApproxNoH0(self, z) == c * z

\* the linear branch: c / H0 * z
LinearApprox(self, z) == (c \div self.H0) * z

\* D_C * (1 - z): the factor with the wrong sign
ScaleByRedshiftDown(self, integral, z) ==
    LET D_C == (c \div self.H0) * integral
    IN D_C - MulDiv(D_C, z \div 1000, 1000)

\* D_C * (1 + z) with D_C = (c / H0) * integral
ScaleByRedshift(self, integral, z) ==
    LET D_C == (c \div self.H0) * integral
    IN D_C + MulDiv(D_C, z \div 1000, 1000)

\* what luminosity_distance makes of the integral: nan when quad raised,
\* (c / H0) * integral * (1 + z) otherwise
DistanceFromIntegral(self, z, q) ==
    [val |-> IF IsRaised(q.val) THEN NaN
             ELSE IF IsNum(q.val) THEN Num(ScaleByRedshift(self, q.val.v, z))
             ELSE q.val,
     evals |-> q.evals]

\* CosmologyModel.luminosity_distance: [val, evals], evals the points at which
\* E was evaluated
luminosity_distance(self, z) ==
    IF z < LinearBelow
    THEN [val |-> Num(LinearApprox(self, z)), evals |-> {}]
    ELSE DistanceFromIntegral(self, z, Quad(self, z))

\* the guard with < for <=
InvalidDistanceStrict(D_L) ==
    \/ IsNaN(D_L)
    \/ D_L.k = "ninf"
    \/ IsNum(D_L) /\ D_L.v < 0

\* D_L <= 0 or np.isnan(D_L)
InvalidDistance(D_L) ==
    \/ IsNaN(D_L)
    \/ D_L.k = "ninf"
    \/ IsNum(D_L) /\ D_L.v <= 0

\* 5 * l + 25 for l a log10 in tenths
ModulusFromLog(l) == IF IsNum(l) THEN Num(5 * l.v + 250) ELSE l

\* 5 * np.log10(D_L) + 25
ModulusOf(D_L) == IF IsNum(D_L) THEN ModulusFromLog(NpLog10(D_L.v)) ELSE D_L

\* the return of distance_modulus for a luminosity distance D_L
ModulusOrNaN(D_L) == IF InvalidDistance(D_L) THEN NaN ELSE ModulusOf(D_L)

\* CosmologyModel.distance_modulus
distance_modulus(self, z) == ModulusOrNaN(luminosity_distance(self, z).val)

---------------------------------------------------------------------------
(* PowerLawErasure: construction *)

\* np.logspace(-2, 0, NGrid), in 1e-4
a_eval ==
    CASE NGrid = 2 -> <<100, 10000>>
      [] NGrid = 3 -> <<100, 1000, 10000>>
      [] NGrid = 4 -> <<100, 464, 2154, 10000>>
      [] NGrid = 5 -> <<100, 316, 1000, 3162, 10000>>

\* the initial condition y0 at a = 0.01
Om_init == 99
Ode_init == 1

\* 1.0 / a - 1, in 1e-6
RedshiftOf(a) == (10000000 \div a) * 1000 - 1000000

\* (Om, Ode) solve_ivp may report at a sample after the first: a negative
\* matter density, or densities for which Om / (1 + z)^3 + Ode is near 1 at
\* z = 0
DensitySamples == {<<-1, 50>>, <<50, 50>>}

\* What solve_ivp can return: success or not, and the two densities at the
\* points of t_eval. t_eval[0] is the start of the integration, so the first
\* sample is the initial condition; the later ones are whatever the integration
\* gave.
SolveIvpOutcomes ==
    {[success |-> ok, t |-> a_eval,
      Om |-> [i \in 1..NGrid |-> IF i = 1 THEN Om_init ELSE y[i][1]],
      Ode |-> [i \in 1..NGrid |-> IF i = 1 THEN Ode_init ELSE y[i][2]]] :
        ok \in BOOLEAN,
        y \in [2..NGrid -> DensitySamples]}

NoSolve == [success |-> FALSE, t |-> NoGrid, Om |-> NoGrid, Ode |-> NoGrid]

\* np.any(Om_grid < 0) or np.any(Ode_grid < 0)
NegativeDensities(self) ==
    \E i \in 1..Len(self.Om_grid) : self.Om_grid[i] < 0 \/ self.Ode_grid[i] < 0

\* Om_grid / (1 + z_grid)**3 + Ode_grid at sample i, in 1e-2
total_omega(self, i) ==
    LET opz == (1000000 + self.z_grid[i]) \div 100000
    IN (self.Om_grid[i] * 1000) \div (opz * opz * opz) + self.Ode_grid[i]

Abs(x) == IF x < 0 THEN 0 - x ELSE x

\* np.max(np.abs(total_omega - 1.0))
max_deviation(self) ==
    LET devs == {Abs(total_omega(self, i) - 100) : i \in 1..Len(self.z_grid)}
    IN CHOOSE d \in devs : \A e \in devs : e <= d

\* the acceptance threshold mistyped as 1.0
EnergyNotConservedLoose(self) == max_deviation(self) > 100

\* max_deviation > 0.5
EnergyNotConserved(self) == max_deviation(self) > 50

\* an except branch that sets the flag and stores no grid
DegenerateGridFlagOnly(self) == [self EXCEPT !.failed = TRUE]

\* the except branch: a flat grid of 0.01 over a_eval, and failed
DegenerateGrid(self) ==
    [self EXCEPT !.z_grid = [i \in 1..NGrid |-> RedshiftOf(a_eval[i])],
                 !.Om_grid = [i \in 1..NGrid |-> 1],
                 !.Ode_grid = [i \in 1..NGrid |-> 1],
                 !.failed = TRUE]

\* "Store as functions of redshift": z_grid = 1.0 / sol.t - 1 keeps the order
\* of sol.t, so it runs from z = 99 down to z = 0
StoreGrid(self, s) ==
    [self EXCEPT !.z_grid = [i \in 1..Len(s.t) |-> RedshiftOf(s.t[i])],
                 !.Om_grid = s.Om,
                 !.Ode_grid = s.Ode]

\* PowerLawErasure._compute_evolution, given what solve_ivp returned
compute_evolution(self, s) ==
    IF ~s.success
    THEN DegenerateGrid(self)
    ELSE LET stored == StoreGrid(self, s)
         IN IF NegativeDensities(stored) \/ EnergyNotConserved(stored)
            THEN DegenerateGrid(stored)
            ELSE stored

\* PowerLawErasure.__init__ up to the call of _compute_evolution
PowerLawErasureFields(Om0, beta, alpha, H0) ==
    [cls |-> "PowerLawErasure", H0 |-> H0, Om0 |-> Om0, Ode0 |-> 100 - Om0,
     beta |-> beta, alpha |-> alpha, failed |-> FALSE, z_grid |-> NoGrid,
     Om_grid |-> NoGrid, Ode_grid |-> NoGrid]

\* PowerLawErasure.__init__
PowerLawErasure(Om0, beta, alpha, H0, s) ==
    compute_evolution(PowerLawErasureFields(Om0, beta, alpha, H0), s)

---------------------------------------------------------------------------
(* The parameter values and redshifts the model draws from *)

\* values inside the bounds of differential_evolution (both ends of each)
Om0Box == {10, 30, 50}
BetaBox == {-50, 50}
AlphaBox == {-600, 0}
H0Box == {60, 80}

\* a LambdaCDM built by hand may lie outside the box: Om0 = -1 has a negative
\* radicand from z = 0.26 on
Om0Any == Om0Box \cup {-100}

\* redshifts on both sides of 0 and of 1e-5, and of the loader's cut 0.01
Redshifts == {-5, 0, 5, 9, 10, 11, 20000, 500000}

NoInstance == CosmologyModel(0)
NoReturn == [fn |-> "none", val |-> NaN, D_L |-> NaN, ier |-> -1, evals |-> {},
             n_valid |-> 0]

---------------------------------------------------------------------------
(* SpecModel: a model instance is built, then E, luminosity_distance and    *)
(* distance_modulus are called on it, any number of times.                  *)

\* no input file in play
NoFile == [parses |-> TRUE, columns |-> {}, rows |-> <<>>]

NoDE == [evals |-> 0, x |-> <<>>, fun |-> NaN, trial |-> <<>>, energy |-> NaN]
NoFit == [model |-> NoInstance, chi2 |-> NaN, n_valid |-> 0, dof |-> 0]
NoCmp == [delta_chi2 |-> NaN, delta_aic |-> NaN, delta_bic |-> NaN,
          verdict |-> "none", aic_verdict |-> "none", bic_verdict |-> "none"]

PipelineIdle ==
    /\ raw = NoFile
    /\ data = <<>>
    /\ de = NoDE
    /\ lcdm = NoFit
    /\ erasure = NoFit
    /\ cmp = NoCmp
    /\ verdict = "none"
    /\ stream = <<>>
    /\ calls = <<>>

pipelineVars == <<raw, data, de, lcdm, erasure, cmp, verdict, stream, calls>>

InitModel ==
    /\ pc = "new"
    /\ inst = NoInstance
    /\ zarg = 0
    /\ ret = NoReturn
    /\ sol = NoSolve
    /\ PipelineIdle

NewCosmologyModel ==
    /\ pc = "new"
    /\ \E H0 \in H0Box : inst' = CosmologyModel(H0)
    /\ pc' = "ready"
    /\ UNCHANGED <<zarg, ret, sol, pipelineVars>>

NewLambdaCDM ==
    /\ pc = "new"
    /\ \E Om0 \in Om0Any, H0 \in H0Box : inst' = LambdaCDM(Om0, H0)
    /\ pc' = "ready"
    /\ UNCHANGED <<zarg, ret, sol, pipelineVars>>

NewPowerLawErasure ==
    /\ pc = "new"
    /\ \E Om0 \in Om0Box, beta \in BetaBox, alpha \in AlphaBox, H0 \in H0Box,
          s \in SolveIvpOutcomes :
            /\ inst' = PowerLawErasure(Om0, beta, alpha, H0, s)
            /\ sol' = s
    /\ pc' = "ready"
    /\ UNCHANGED <<zarg, ret, pipelineVars>>

CallE ==
    /\ pc = "ready"
    /\ \E z \in Redshifts :
            /\ zarg' = z
            /\ ret' = [fn |-> "E", val |-> E(inst, z), D_L |-> NaN, ier |-> -1,
                       evals |-> {z}, n_valid |-> 0]
    /\ pc' = "returned"
    /\ UNCHANGED <<inst, sol, pipelineVars>>

\* ier is quad's own report of whether it met epsabs/epsrel within limit=100;
\* the call does not ask for it (no full_output) and warnings are filtered
CallLuminosityDistance ==
    /\ pc = "ready"
    /\ \E z \in Redshifts, ier \in {0, 1} :
            LET r == luminosity_distance(inst, z)
                ran == z >= LinearBelow /\ ~IsRaised(Quad(inst, z).val)
            IN /\ zarg' = z
               /\ ret' = [fn |-> "luminosity_distance", val |-> r.val, D_L |-> r.val,
                          ier |-> IF ran THEN ier ELSE -1, evals |-> r.evals,
                          n_valid |-> 0]
    /\ pc' = "returned"
    /\ UNCHANGED <<inst, sol, pipelineVars>>

CallDistanceModulus ==
    /\ pc = "ready"
    /\ \E z \in Redshifts :
            LET r == luminosity_distance(inst, z)
            IN /\ zarg' = z
               /\ ret' = [fn |-> "distance_modulus", val |-> distance_modulus(inst, z),
                          D_L |-> r.val, ier |-> -1, evals |-> r.evals, n_valid |-> 0]
    /\ pc' = "returned"
    /\ UNCHANGED <<inst, sol, pipelineVars>>

\* the caller goes on to its next call on the same instance
NextCall ==
    /\ pc = "returned"
    /\ pc' = "ready"
    /\ zarg' = 0
    /\ ret' = NoReturn
    /\ UNCHANGED <<inst, sol, pipelineVars>>

NextModel ==
    \/ NewCosmologyModel
    \/ NewLambdaCDM
    \/ NewPowerLawErasure
    \/ CallE
    \/ CallLuminosityDistance
    \/ CallDistanceModulus
    \/ NextCall

SpecModel == InitModel /\ [][NextModel]_vars

---------------------------------------------------------------------------
(* Claims about the model instances (checked under SpecModel) *)

\* what the claims call a failed validation, read off what solve_ivp returned:
\* no success, a negative sample, or Om * a^3 + Ode further than 0.5 from 1
SampleDeviation(s, i) ==
    LET a3 == (s.t[i] \div 100) * (s.t[i] \div 100) * (s.t[i] \div 100)
    IN Abs((s.Om[i] * a3) \div 1000000 + s.Ode[i] - 100)

ValidationFails(s) ==
    \/ ~s.success
    \/ \E i \in 1..Len(s.t) : s.Om[i] < 0 \/ s.Ode[i] < 0
    \/ \E i \in 1..Len(s.t) : SampleDeviation(s, i) > 50

Built == pc # "new" /\ inst.cls = "PowerLawErasure"

\* C3: after construction of a PowerLawErasure, failed is TRUE exactly when
\* the solve reported no success, or a sampled density is negative, or the
\* total density is further than 0.5 from 1 at a sample; an instance that is
\* not failed stores only non-negative densities whose total is within 0.5
\* of 1 at every sample.
C3_FailedIffValidationFails ==
    Built =>
        /\ inst.failed <=> ValidationFails(sol)
        /\ ~inst.failed =>
              \A i \in 1..Len(inst.z_grid) :
                  /\ inst.Om_grid[i] >= 0
                  /\ inst.Ode_grid[i] >= 0
                  /\ Abs(total_omega(inst, i) - 100) <= 50

\* a construction that the energy check alone rejects
C3_Witness ==
    /\ Built
    /\ inst.failed
    /\ sol.success
    /\ \A i \in 1..Len(sol.t) : sol.Om[i] >= 0 /\ sol.Ode[i] >= 0

\* C4: a construction whose validation fails still yields an instance: failed
\* is TRUE, z_grid is 1/a_eval - 1 and Om_grid, Ode_grid are flat at 0.01 over
\* all the sample points, and E, luminosity_distance and distance_modulus
\* called on it return without raising.
C4_FailedInstanceUsable ==
    (Built /\ ValidationFails(sol)) =>
        /\ inst.failed
        /\ inst.z_grid = [i \in 1..NGrid |-> RedshiftOf(a_eval[i])]
        /\ inst.Om_grid = [i \in 1..NGrid |-> 1]
        /\ inst.Ode_grid = [i \in 1..NGrid |-> 1]
        /\ pc = "returned" => ~IsRaised(ret.val)

\* distance_modulus has returned a number on a failed instance
C4_Witness ==
    /\ Built
    /\ ValidationFails(sol)
    /\ pc = "returned"
    /\ ret.fn = "distance_modulus"
    /\ IsNum(ret.val)

\* E is not positive, or fails, at a point the quadrature evaluated
NonPositiveE(self, p) ==
    LET e == E(self, p)
    IN IsRaised(e) \/ IsNaN(e) \/ (IsNum(e) /\ e.v <= 0)

\* C7: luminosity_distance(z) for z >= 1e-5 never raises and returns nan when
\* the quadrature did not converge, when E is not positive somewhere in
\* [0, z], or when the evaluation of E fails.
C7_FailuresReturnNaN ==
    (pc = "returned" /\ ret.fn = "luminosity_distance" /\ zarg >= 10) =>
        /\ ~IsRaised(ret.val)
        /\ (ret.ier = 1 \/ \E p \in ret.evals : NonPositiveE(inst, p)) => IsNaN(ret.val)

\* C8: distance_modulus never raises; it returns nan whenever the luminosity
\* distance is nan or <= 0 (so for every z <= 0), and 5*log10(D_L) + 25 for
\* every positive finite D_L.
C8_ModulusSentinel ==
    (pc = "returned" /\ ret.fn = "distance_modulus") =>
        /\ ~IsRaised(ret.val)
        /\ (IsNaN(ret.D_L) \/ ret.D_L.k = "ninf" \/ (IsNum(ret.D_L) /\ ret.D_L.v <= 0))
              => IsNaN(ret.val)
        /\ zarg <= 0 => IsNaN(ret.val)
        /\ (IsNum(ret.D_L) /\ ret.D_L.v > 0)
              => ret.val = Num(5 * NpLog10(ret.D_L.v).v + 250)

\* distance_modulus(0): D_L = 0, the result is nan
C8_Witness ==
    /\ pc = "returned"
    /\ ret.fn = "distance_modulus"
    /\ zarg = 0
    /\ ret.D_L = Num(0)
    /\ IsNaN(ret.val)

\* C9: on a LambdaCDM or PowerLawErasure instance luminosity_distance(z)
\* returns c*z/H0 for z < 1e-5 and evaluates E nowhere; for z >= 1e-5 it
\* returns (c/H0) * integral * (1+z), integral being what the quadrature of
\* 1/E over [0, z] gave.
C9_LinearBelowThreshold ==
    (pc = "returned" /\ ret.fn = "luminosity_distance"
        /\ inst.cls \in {"LambdaCDM", "PowerLawErasure"}) =>
        /\ zarg < 10 => (ret.val = Num((c \div inst.H0) * zarg) /\ ret.evals = {})
        /\ zarg >= 10 =>
              LET q == Quad(inst, zarg).val
                  D_C == (c \div inst.H0) * q.v
              IN /\ ret.evals # {}
                 /\ IsNum(q) => ret.val = Num(D_C + MulDiv(D_C, zarg \div 1000, 1000))
                 /\ ~IsNum(q) => ret.val = q

\* the linear branch taken on a degenerate instance just below the threshold
C9_Witness ==
    /\ pc = "returned"
    /\ ret.fn = "luminosity_distance"
    /\ inst.cls = "PowerLawErasure"
    /\ inst.failed
    /\ zarg = 9
    /\ ret.val = Num((c \div inst.H0) * 9)

---------------------------------------------------------------------------
(* Part 3: chi-squared *)

\* ((mu_obs - mu_model) / err)**2, rounded down to a whole number
chi_term(ob, mu) ==
    IF IsInf(mu) THEN PInf
    ELSE IF ob.err = 0
         THEN (IF ob.mu_obs = mu.v THEN NaN ELSE PInf)
         ELSE Num(((ob.mu_obs - mu.v) * (ob.mu_obs - mu.v)) \div (ob.err * ob.err))

\* an accumulation that counts the observation before it looks at the
\* prediction
chi_accumulate_all(ob, acc, mu_model) ==
    IF IsNaN(mu_model)
    THEN [chi2 |-> acc.chi2, n_valid |-> acc.n_valid + 1]
    ELSE [chi2 |-> AddF(acc.chi2, chi_term(ob, mu_model)), n_valid |-> acc.n_valid + 1]

\* the loop body after mu_model is computed: skip a nan prediction, otherwise
\* add the term and count the observation
chi_accumulate(ob, acc, mu_model) ==
    IF IsNaN(mu_model)
    THEN acc
    ELSE [chi2 |-> AddF(acc.chi2, chi_term(ob, mu_model)), n_valid |-> acc.n_valid + 1]

\* one turn of the loop of chi_squared
chi_step(model, ob, acc) == chi_accumulate(ob, acc, distance_modulus(model, ob.z))

\* the accumulators after the first n turns of the loop
RECURSIVE chi_loop(_, _, _)
chi_loop(model, obs, n) ==
    IF n = 0 THEN [chi2 |-> Num(0), n_valid |-> 0]
    ELSE chi_step(model, obs[n], chi_loop(model, obs, n - 1))

\* chi_squared(model, z_data, mu_data, mu_err): [chi2, n_valid]
chi_squared(model, obs) == chi_loop(model, obs, Len(obs))

\* the sequences of at most n elements of S
SeqsUpTo(S, n) == UNION {[1..m -> S] : m \in 0..n}

\* observations chi_squared is called with: a redshift the loader would not
\* pass (0) beside two it would, moduli near either model, two errors
ChiObservations ==
    {[z |-> z, mu_obs |-> mu, err |-> err] : z \in {0, 20000, 500000}, mu \in {345, 460},
                                         err \in {1, 5}}

\* bounds that let Om0 reach 1
lcdm_bounds_wide == <<<<10, 100>>, <<60, 80>>>>

\* the bounds fit_lcdm gives differential_evolution: (Om0, H0), densities in
\* hundredths
lcdm_bounds == <<<<10, 50>>, <<60, 80>>>>

\* the bounds fit_erasure gives it: (Om0, beta, alpha, H0)
erasure_bounds == <<<<10, 50>>, <<-50, 50>>, <<-600, 0>>, <<60, 80>>>>

\* differential_evolution keeps its population in the unit cube (here in
\* hundredths) and scales a member to the bounds before the objective sees it
\* and before it is returned as result.x
scale_parameters(u, bounds) ==
    [i \in 1..Len(u) |-> bounds[i][1] + (u[i] * (bounds[i][2] - bounds[i][1])) \div 100]

\* population members the optimizer may try: corners and the centre of a face
UnitTrials4 == <<<<0, 0, 0, 0>>, <<50, 100, 0, 100>>, <<100, 100, 100, 100>>, <<50, 0, 100, 0>>>>

UnitTrials2 == <<<<0, 0>>, <<50, 0>>, <<50, 100>>, <<100, 100>>>>

\* the parameter vectors fit_erasure's objective may be called on
ErasureTrials ==
    [n \in 1..Len(UnitTrials4) |-> scale_parameters(UnitTrials4[n], erasure_bounds)]

ErasureCandidates == {ErasureTrials[i] : i \in 1..Len(ErasureTrials)}

\* the parameter vectors fit_lcdm's objective may be called on
LcdmTrials == [n \in 1..Len(UnitTrials2) |-> scale_parameters(UnitTrials2[n], lcdm_bounds)]

LcdmCandidates == {LcdmTrials[i] : i \in 1..Len(LcdmTrials)}

(* SpecChi: chi_squared is called on an instance and a dataset *)

InitChi == InitModel

ChiNewModel ==
    /\ pc = "new"
    /\ \/ \E H0 \in H0Box : inst' = CosmologyModel(H0)
       \/ \E Om0 \in Om0Any, H0 \in H0Box : inst' = LambdaCDM(Om0, H0)
       \/ \E x \in ErasureCandidates, s \in SolveIvpOutcomes :
              inst' = PowerLawErasure(x[1], x[2], x[3], x[4], s)
    /\ pc' = "ready"
    /\ UNCHANGED <<zarg, ret, sol, pipelineVars>>

CallChiSquared ==
    /\ pc = "ready"
    /\ \E obs \in SeqsUpTo(ChiObservations, MaxRows) :
            LET r == chi_squared(inst, obs)
            IN /\ data' = obs
               /\ ret' = [fn |-> "chi_squared", val |-> r.chi2, D_L |-> NaN, ier |-> -1,
                          evals |-> {}, n_valid |-> r.n_valid]
    /\ pc' = "returned"
    /\ UNCHANGED <<inst, zarg, sol, raw, de, lcdm, erasure, cmp, verdict, stream, calls>>

NextChi == ChiNewModel \/ CallChiSquared

SpecChi == InitChi /\ [][NextChi]_vars

\* the observations of the dataset for which the model's distance modulus is
\* a valid number
ValidRows(model, obs) ==
    {i \in 1..Len(obs) : ~IsNaN(distance_modulus(model, obs[i].z))}

RECURSIVE SumTerms(_, _, _)
SumTerms(model, obs, rows) ==
    IF rows = {} THEN Num(0)
    ELSE LET i == CHOOSE i \in rows : TRUE
         IN AddF(chi_term(obs[i], distance_modulus(model, obs[i].z)),
                 SumTerms(model, obs, rows \ {i}))

\* C5: chi_squared returns (chi2, n_valid) with n_valid the number of
\* observations whose model distance modulus is not nan and chi2 the sum of
\* ((mu_obs - mu_model)/err)^2 over exactly those; 0 <= n_valid <= len,
\* chi2 >= 0, and chi2 = 0 when n_valid = 0.
C5_ChiSquaredOverValidRows ==
    (pc = "returned" /\ ret.fn = "chi_squared") =>
        LET rows == ValidRows(inst, data)
        IN /\ ret.n_valid = Cardinality(rows)
           /\ ret.val = SumTerms(inst, data, rows)
           /\ 0 <= ret.n_valid /\ ret.n_valid <= Len(data)
           /\ IsNum(ret.val) /\ ret.val.v >= 0
           /\ ret.n_valid = 0 => ret.val = Num(0)

\* one observation skipped and one counted
C5_Witness ==
    /\ pc = "returned"
    /\ ret.fn = "chi_squared"
    /\ Len(data) = 2
    /\ ret.n_valid = 1
    /\ ret.val.v > 0

---------------------------------------------------------------------------
(* Part 4: model comparison *)

\* np.log(n) * 100 for n = 1..10
Ln100 == <<0, 69, 110, 139, 161, 179, 195, 208, 220, 230>>

\* np.log of a count, in 1e-2: -inf at 0 and nan below (warnings only)
NpLog(n) == IF n < 0 THEN NaN ELSE IF n = 0 THEN NInf ELSE Num(Ln100[n])

delta_params == 2
threshold_weak == 2 * delta_params
threshold_strong == 10 * delta_params
k_lcdm == 2
k_erasure == 4

\* the chain with >= for >
Chi2VerdictInclusive(delta_chi2) ==
    IF ~LtF(delta_chi2, Num(threshold_strong)) /\ ~IsNaN(delta_chi2) THEN "strong"
    ELSE IF ~LtF(delta_chi2, Num(threshold_weak)) /\ ~IsNaN(delta_chi2) THEN "weak"
    ELSE IF ~LtF(delta_chi2, Num(0)) /\ ~IsNaN(delta_chi2) THEN "comparable"
    ELSE "lcdm"

\* the if/elif chain on delta_chi2
Chi2Verdict(delta_chi2) ==
    IF GtN(delta_chi2, threshold_strong) THEN "strong"
    ELSE IF GtN(delta_chi2, threshold_weak) THEN "weak"
    ELSE IF GtN(delta_chi2, 0) THEN "comparable"
    ELSE "lcdm"

\* the if/elif chain on delta_aic
AicVerdict(delta_aic) ==
    IF GtN(delta_aic, 10) THEN "strong"
    ELSE IF GtN(delta_aic, 4) THEN "moderate"
    ELSE IF GtN(delta_aic, 0) THEN "comparable"
    ELSE "lcdm"

\* the ladder of delta_aic applied to delta_bic
BicVerdictAicLadder(delta_bic) ==
    IF GtN(delta_bic, 1000) THEN "strong"
    ELSE IF GtN(delta_bic, 400) THEN "moderate"
    ELSE IF GtN(delta_bic, 0) THEN "comparable"
    ELSE "lcdm"

\* the if/elif chain on delta_bic, which is in 1e-2
BicVerdict(delta_bic) ==
    IF GtN(delta_bic, 1000) THEN "strong"
    ELSE IF GtN(delta_bic, 600) THEN "moderate"
    ELSE IF GtN(delta_bic, 0) THEN "comparable"
    ELSE "lcdm"

\* a penalty of k for 2 * k
AicSingleK(chi2, k) == AddF(chi2, Num(k))

\* chi2 + 2 * k
Aic(chi2, k) == AddF(chi2, Num(2 * k))

\* chi2 + k * np.log(n), in 1e-2
Bic(chi2, k, n) == AddF(ScaleF(100, chi2), ScaleF(k, NpLog(n)))

\* the three differences model_comparison returns
Deltas(lcdm_chi2, lcdm_dof, erasure_chi2) ==
    [delta_chi2 |-> SubF(lcdm_chi2, erasure_chi2),
     delta_aic |-> SubF(Aic(lcdm_chi2, k_lcdm), Aic(erasure_chi2, k_erasure)),
     delta_bic |-> SubF(Bic(lcdm_chi2, k_lcdm, lcdm_dof + k_lcdm),
                        Bic(erasure_chi2, k_erasure, lcdm_dof + k_lcdm))]

\* the differences with the interpretations printed for them
WithVerdicts(d) ==
    [delta_chi2 |-> d.delta_chi2, delta_aic |-> d.delta_aic, delta_bic |-> d.delta_bic,
     verdict |-> Chi2Verdict(d.delta_chi2),
     aic_verdict |-> AicVerdict(d.delta_aic),
     bic_verdict |-> BicVerdict(d.delta_bic)]

\* model_comparison: what it returns and what it prints. Neither model and
\* neither erasure_dof enters a returned value.
model_comparison(lcdm_chi2, lcdm_dof, erasure_chi2, erasure_dof) ==
    WithVerdicts(Deltas(lcdm_chi2, lcdm_dof, erasure_chi2))

\* arguments with the two fits in the other order
ComparisonArgsSwapped(lcdm_fit_, erasure_fit_) ==
    <<erasure_fit_.chi2, erasure_fit_.dof, lcdm_fit_.chi2, lcdm_fit_.dof>>

\* the chi-squared and dof main passes on from what the two fits returned
\* (the two models are passed too, and not used)
ComparisonArgs(lcdm_fit_, erasure_fit_) ==
    <<lcdm_fit_.chi2, lcdm_fit_.dof, erasure_fit_.chi2, erasure_fit_.dof>>

\* main: the call of model_comparison on the two fits
Compare ==
    /\ pc = "compare"
    /\ cmp' = model_comparison(ComparisonArgs(lcdm, erasure)[1], ComparisonArgs(lcdm, erasure)[2],
                               ComparisonArgs(lcdm, erasure)[3], ComparisonArgs(lcdm, erasure)[4])
    /\ calls' = Append(calls, [fn |-> "model_comparison",
                               args |-> ComparisonArgs(lcdm, erasure), returned |-> cmp'])
    /\ pc' = "plot"
    /\ UNCHANGED <<inst, zarg, ret, sol, raw, data, de, lcdm, erasure, verdict, stream>>

(* SpecCmp: model_comparison on its own, called with what two fits can
   return: chi2 is 0 when no observation was valid, and dof = n_valid - k *)

FitReturns(model, k) ==
    {[model |-> model, chi2 |-> Num(r[2]), n_valid |-> r[1], dof |-> r[1] - k] :
        r \in {q \in (0..MaxRows) \X (0..MaxChi) : q[1] = 0 => q[2] = 0}}

InitCmp ==
    /\ pc = "compare"
    /\ inst = NoInstance
    /\ zarg = 0
    /\ ret = NoReturn
    /\ sol = NoSolve
    /\ raw = NoFile
    /\ data = <<>>
    /\ de = NoDE
    /\ lcdm \in FitReturns(LambdaCDM(30, 60), k_lcdm)
    /\ erasure \in FitReturns(PowerLawErasure(30, 50, -600, 60,
                                             CHOOSE s \in SolveIvpOutcomes : TRUE),
                            k_erasure)
    /\ cmp = NoCmp
    /\ verdict = "none"
    /\ stream = <<>>
    /\ calls = <<>>

NextCmp == Compare

SpecCmp == InitCmp /\ [][NextCmp]_vars

\* the four classes in the order of growing evidence for the erasure model
Rank(v) ==
    CASE v = "lcdm" -> 0
      [] v = "comparable" -> 1
      [] v = "weak" -> 2
      [] v = "strong" -> 3

\* lcdm_chi2 - erasure_chi2 of the two fits, finite in every state
DeltaOfFits == lcdm.chi2.v - erasure.chi2.v

\* C10: model_comparison computes delta_chi2 = lcdm_chi2 - erasure_chi2 and
\* classifies it: above 20 strong, above 4 up to 20 weak, above 0 up to 4
\* comparable, at most 0 LambdaCDM preferred; one class for every input, and
\* the class never falls as delta_chi2 grows.
C10_DeltaChi2Classes ==
    pc = "plot" =>
        /\ cmp.delta_chi2 = Num(DeltaOfFits)
        /\ cmp.verdict = "strong" <=> DeltaOfFits > 20
        /\ cmp.verdict = "weak" <=> (DeltaOfFits > 4 /\ DeltaOfFits <= 20)
        /\ cmp.verdict = "comparable" <=> (DeltaOfFits > 0 /\ DeltaOfFits <= 4)
        /\ cmp.verdict = "lcdm" <=> DeltaOfFits <= 0
        /\ Rank(cmp.verdict) <= Rank(Chi2Verdict(Num(DeltaOfFits + 1)))
        /\ Rank(Chi2Verdict(Num(DeltaOfFits - 1))) <= Rank(cmp.verdict)

\* a difference exactly at the weak threshold is classed comparable
C10_Witness ==
    /\ pc = "plot"
    /\ cmp.delta_chi2 = Num(4)
    /\ cmp.verdict = "comparable"

\* C11: model_comparison computes AIC = chi2 + 2k with k = 2 for LambdaCDM
\* and k = 4 for Erasure and returns delta_aic = AIC_lcdm - AIC_erasure, which
\* is delta_chi2 - 4 for every input.
C11_DeltaAic ==
    pc = "plot" =>
        /\ cmp.delta_aic = Num((lcdm.chi2.v + 2 * 2) - (erasure.chi2.v + 2 * 4))
        /\ cmp.delta_aic = Num(cmp.delta_chi2.v - 4)

\* equal chi-squared: the two extra parameters cost 4
C11_Witness ==
    /\ pc = "plot"
    /\ lcdm.chi2 = Num(7)
    /\ erasure.chi2 = Num(7)
    /\ cmp.delta_aic = Num(-4)

\* chi2 + k * ln(n) in 1e-2, n the model's own dof + k
BicOwnN(fit, k) == AddF(ScaleF(100, fit.chi2), ScaleF(k, NpLog(fit.dof + k)))

\* C12: model_comparison computes BIC = chi2 + k*ln(n) per model with n that
\* model's own number of data points (its dof + its k), and delta_bic =
\* BIC_lcdm - BIC_erasure, also when lcdm_dof + 2 # erasure_dof + 4.
C12_BicOwnDataPoints ==
    pc = "plot" => cmp.delta_bic = SubF(BicOwnN(lcdm, 2), BicOwnN(erasure, 4))

\* the class a ladder with steps hi > mid > 0 gives a finite value
LadderClass(v, mid, hi) ==
    IF v > hi THEN "strong"
    ELSE IF v > mid THEN "moderate"
    ELSE IF v > 0 THEN "comparable"
    ELSE "lcdm"

\* C13: delta_aic is classed > 10 strong, > 4 moderate, > 0 comparable, else
\* LambdaCDM favored; delta_bic > 10 strong, > 6 moderate, > 0 comparable,
\* else LambdaCDM favored; each ladder gives every value exactly one class.
C13_AicBicLadders ==
    pc = "plot" =>
        /\ cmp.aic_verdict \in {"strong", "moderate", "comparable", "lcdm"}
        /\ cmp.bic_verdict \in {"strong", "moderate", "comparable", "lcdm"}
        /\ IsNum(cmp.delta_aic) => cmp.aic_verdict = LadderClass(cmp.delta_aic.v, 4, 10)
        /\ IsNum(cmp.delta_bic) => cmp.bic_verdict = LadderClass(cmp.delta_bic.v, 600, 1000)

\* delta_bic exactly 6 is comparable, with delta_aic = 2 comparable too
C13_Witness ==
    /\ pc = "plot"
    /\ cmp.delta_bic = Num(600)
    /\ cmp.bic_verdict = "comparable"
    /\ cmp.delta_aic = Num(2)
    /\ cmp.aic_verdict = "comparable"

---------------------------------------------------------------------------
(* Part 5: the pipeline of main *)

\* rows a data file can hold: two that pass the quality cuts, a calibrator
\* and a redshift of exactly 0.01
RawRows ==
    {[zHD |-> 20000, MU_SH0ES |-> 345, MU_SH0ES_ERR_DIAG |-> 5, IS_CALIBRATOR |-> 0],
     [zHD |-> 500000, MU_SH0ES |-> 460, MU_SH0ES_ERR_DIAG |-> 2, IS_CALIBRATOR |-> 0],
     [zHD |-> 20000, MU_SH0ES |-> 345, MU_SH0ES_ERR_DIAG |-> 5, IS_CALIBRATOR |-> 1],
     [zHD |-> 10000, MU_SH0ES |-> 345, MU_SH0ES_ERR_DIAG |-> 5, IS_CALIBRATOR |-> 0]}

\* a mask that keeps a redshift of exactly 0.01
QualityCutInclusive(row) ==
    /\ row.IS_CALIBRATOR = 0
    /\ row.zHD >= 10000
    /\ row.MU_SH0ES_ERR_DIAG > 0
    /\ row.MU_SH0ES_ERR_DIAG < 10

\* the mask of load_pantheon_data
QualityCut(row) ==
    /\ row.IS_CALIBRATOR = 0
    /\ row.zHD > 10000
    /\ row.MU_SH0ES_ERR_DIAG > 0
    /\ row.MU_SH0ES_ERR_DIAG < 10

\* the three columns returned for the rows kept
Columns(df) ==
    [i \in 1..Len(df) |-> [z |-> df[i].zHD, mu_obs |-> df[i].MU_SH0ES,
                           err |-> df[i].MU_SH0ES_ERR_DIAG]]

\* the columns load_pantheon_data indexes
RequiredColumns == {"IS_CALIBRATOR", "zHD", "MU_SH0ES_ERR_DIAG", "MU_SH0ES"}

\* files read_csv parses, with all the columns
GoodFiles(rows, n) ==
    {[parses |-> TRUE, columns |-> RequiredColumns, rows |-> r] : r \in SeqsUpTo(rows, n)}

\* a file read_csv cannot parse, and files that lack one of the columns
BadFiles(rows) ==
    {[parses |-> FALSE, columns |-> {}, rows |-> <<>>]}
        \cup {[parses |-> TRUE, columns |-> RequiredColumns \ {col}, rows |-> r] :
                  col \in RequiredColumns, r \in SeqsUpTo(rows, 1)}

\* a loader that only read_csv can stop
LoadRaisesUnparsedOnly(file) == ~file.parses

\* read_csv raises on a file it cannot parse, data[...] or df[...] raises
\* KeyError on a missing column; the except clause prints and re-raises
LoadRaises(file) == ~file.parses \/ ~(RequiredColumns \subseteq file.columns)

\* load_pantheon_data when nothing raises: the columns of the rows kept
load_pantheon_data(file) == Columns(SelectSeq(file.rows, QualityCut))

\* differential_evolution after one more call of the objective: x and fun
\* are the best vector and energy so far, replaced only by a strictly lower
\* energy; trial and energy are the call just made
de_step(d, x, f) ==
    [evals |-> d.evals + 1,
     x |-> IF d.evals = 0 \/ LtF(f, d.fun) THEN x ELSE d.x,
     fun |-> IF d.evals = 0 \/ LtF(f, d.fun) THEN f ELSE d.fun,
     trial |-> x,
     energy |-> f]

\* fit_lcdm.objective, given the model it constructs
lcdm_objective(model, obs) == chi_squared(model, obs).chi2

\* fit_lcdm: what it returns (and n_valid, which it prints) from the chi_squared
\* of the best model
lcdm_fit(best_model, r) ==
    [model |-> best_model, chi2 |-> r.chi2, n_valid |-> r.n_valid, dof |-> r.n_valid - 2]

\* the end of fit_erasure.objective: 1e10 for a nan or infinite chi2
finite_or_sentinel(chi2) == IF IsNaN(chi2) \/ IsInf(chi2) \/ IsRaised(chi2) THEN Big ELSE chi2

\* an objective that does not look at model.failed
erasure_objective_unflagged(model, obs) == finite_or_sentinel(chi_squared(model, obs).chi2)

\* fit_erasure.objective, given the model it constructs. Nothing it calls
\* raises: the constructor and distance_modulus catch what their callees raise.
erasure_objective(model, obs) ==
    IF model.failed THEN Big ELSE finite_or_sentinel(chi_squared(model, obs).chi2)

\* a fit_erasure that subtracts the parameter count of LambdaCDM
erasure_fit_two_params(best_model, r) ==
    [model |-> best_model, chi2 |-> r.chi2, n_valid |-> r.n_valid, dof |-> r.n_valid - 2]

\* fit_erasure: what it returns (and n_valid, which it prints) from the
\* chi_squared of the best model
erasure_fit(best_model, r) ==
    [model |-> best_model, chi2 |-> r.chi2, n_valid |-> r.n_valid, dof |-> r.n_valid - 4]

\* the if/elif chain at the end of main
final_verdict(delta_chi2, delta_aic) ==
    IF GtN(delta_chi2, 20) /\ GtN(delta_aic, 4) THEN "FAVORED"
    ELSE IF GtN(delta_chi2, 4) THEN "COMPARABLE"
    ELSE "PREFERRED"

\* the draws a generator seeded with 42 hands differential_evolution: the
\* same in every call, whatever they are
Streams == [1..MaxEvals -> 1..Len(LcdmTrials)]

\* a generator that goes on from where the last call left it
trial_index_carried(n, ncalls) == stream[((n + ncalls - 1) % MaxEvals) + 1]

\* seed=42: the n-th draw of a call is the n-th draw of a fresh RandomState(42),
\* however many calls were made before
trial_index(n, ncalls) == stream[n]

\* the population has converged: the energy of the last trial equals the best
\* energy (no spread left for tol and atol to measure)
Converged(d) == d.evals >= 2 /\ d.energy = d.fun

\* differential_evolution stops: converged, or out of budget (maxiter)
Stops(d) == d.evals >= 1 /\ (d.evals >= MaxEvals \/ Converged(d))

\* the OptimizeResult of a run that stops in state d
OptimizeResult(d) == [x |-> d.x, fun |-> d.fun, nfev |-> d.evals, success |-> Converged(d)]

Init ==
    /\ pc = "load"
    /\ inst = NoInstance
    /\ zarg = 0
    /\ ret = NoReturn
    /\ sol = NoSolve
    /\ raw \in GoodFiles(RawRows, MaxRows) \cup BadFiles(RawRows)
    /\ data = <<>>
    /\ de = NoDE
    /\ lcdm = NoFit
    /\ erasure = NoFit
    /\ cmp = NoCmp
    /\ verdict = "none"
    /\ stream \in Streams
    /\ calls = <<>>

\* main calls load_pantheon_data; what it raises ends main, nothing catches it
Load ==
    /\ pc = "load"
    /\ IF LoadRaises(raw)
       THEN data' = data /\ pc' = "load_raised"
       ELSE data' = load_pantheon_data(raw) /\ pc' = "fit_lcdm"
    /\ UNCHANGED <<inst, zarg, ret, sol, raw, de, lcdm, erasure, cmp, verdict, stream, calls>>

\* fit_lcdm.objective called on x: a fresh LambdaCDM, its chi-squared
LcdmObjectiveCall(x) ==
    /\ inst' = LambdaCDM(x[1], x[2])
    /\ de' = de_step(de, x, lcdm_objective(LambdaCDM(x[1], x[2]), data))

\* differential_evolution calls the objective of fit_lcdm on its next trial
\* vector, a vector inside the bounds
LcdmEvaluate ==
    /\ pc = "fit_lcdm"
    /\ ~Stops(de)
    /\ LcdmObjectiveCall(LcdmTrials[trial_index(de.evals + 1, Len(calls))])
    /\ UNCHANGED <<pc, zarg, ret, sol, raw, data, lcdm, erasure, cmp, verdict, stream, calls>>

\* differential_evolution returns; the best model is rebuilt and evaluated
LcdmFinish ==
    /\ pc = "fit_lcdm"
    /\ Stops(de)
    /\ inst' = LambdaCDM(de.x[1], de.x[2])
    /\ lcdm' = lcdm_fit(LambdaCDM(de.x[1], de.x[2]),
                        chi_squared(LambdaCDM(de.x[1], de.x[2]), data))
    /\ calls' = Append(calls, [fn |-> "fit_lcdm", result |-> OptimizeResult(de),
                               returned |-> lcdm'])
    /\ de' = NoDE
    /\ pc' = "fit_erasure"
    /\ UNCHANGED <<zarg, ret, sol, raw, data, erasure, cmp, verdict, stream>>

\* fit_erasure.objective called on x: a fresh PowerLawErasure (s is what
\* solve_ivp returns to it), the sentinel or its chi-squared
ErasureObjectiveCall(x, s) ==
    /\ inst' = PowerLawErasure(x[1], x[2], x[3], x[4], s)
    /\ de' = de_step(de, x,
                     erasure_objective(PowerLawErasure(x[1], x[2], x[3], x[4], s), data))

\* differential_evolution calls the objective of fit_erasure on its next
\* trial vector, a vector inside the bounds
ErasureEvaluate ==
    /\ pc = "fit_erasure"
    /\ ~Stops(de)
    /\ \E s \in SolveIvpOutcomes :
            ErasureObjectiveCall(ErasureTrials[trial_index(de.evals + 1, Len(calls))], s)
    /\ UNCHANGED <<pc, zarg, ret, sol, raw, data, lcdm, erasure, cmp, verdict, stream, calls>>

\* differential_evolution returns; the best model is rebuilt and evaluated
ErasureFinish ==
    /\ pc = "fit_erasure"
    /\ Stops(de)
    /\ \E s \in SolveIvpOutcomes :
            /\ inst' = PowerLawErasure(de.x[1], de.x[2], de.x[3], de.x[4], s)
            /\ erasure' = erasure_fit(
                              PowerLawErasure(de.x[1], de.x[2], de.x[3], de.x[4], s),
                              chi_squared(
                                  PowerLawErasure(de.x[1], de.x[2], de.x[3], de.x[4], s),
                                  data))
    /\ calls' = Append(calls, [fn |-> "fit_erasure", result |-> OptimizeResult(de),
                               returned |-> erasure'])
    /\ de' = NoDE
    /\ pc' = "compare"
    /\ UNCHANGED <<zarg, ret, sol, raw, data, lcdm, cmp, verdict, stream>>

\* plot_results: max(z_data) raises on an empty dataset, and main has no
\* handler
Plot ==
    /\ pc = "plot"
    /\ pc' = IF Len(data) = 0 THEN "raised" ELSE "verdict"
    /\ UNCHANGED <<inst, zarg, ret, sol, raw, data, de, lcdm, erasure, cmp, verdict, stream,
                   calls>>

Verdict ==
    /\ pc = "verdict"
    /\ verdict' = final_verdict(cmp.delta_chi2, cmp.delta_aic)
    /\ pc' = "done"
    /\ UNCHANGED <<inst, zarg, ret, sol, raw, data, de, lcdm, erasure, cmp, stream, calls>>

Next ==
    \/ Load
    \/ LcdmEvaluate
    \/ LcdmFinish
    \/ ErasureEvaluate
    \/ ErasureFinish
    \/ Compare
    \/ Plot
    \/ Verdict

Spec == Init /\ [][Next]_vars

(* SpecSeed: the two fits and the comparison are run on one dataset, then run
   again on the same dataset *)

InitSeed ==
    /\ pc = "fit_lcdm"
    /\ inst = NoInstance
    /\ zarg = 0
    /\ ret = NoReturn
    /\ sol = NoSolve
    /\ raw = NoFile
    /\ data \in {load_pantheon_data(file) : file \in GoodFiles(RawRows, MaxRows)}
    /\ de = NoDE
    /\ lcdm = NoFit
    /\ erasure = NoFit
    /\ cmp = NoCmp
    /\ verdict = "none"
    /\ stream \in Streams
    /\ calls = <<>>

\* the caller starts the analysis over, with the dataset it has
Again ==
    /\ pc = "plot"
    /\ Len(calls) < 3 * MaxRuns
    /\ pc' = "fit_lcdm"
    /\ UNCHANGED <<inst, zarg, ret, sol, raw, data, de, lcdm, erasure, cmp, verdict, stream,
                   calls>>

NextSeed ==
    \/ LcdmEvaluate
    \/ LcdmFinish
    \/ ErasureEvaluate
    \/ ErasureFinish
    \/ Compare
    \/ Again

SpecSeed == InitSeed /\ [][NextSeed]_vars

\* C14: fitting is deterministic: two runs of fit_lcdm, or of fit_erasure,
\* on the same dataset draw from the same seed and carry nothing over, so
\* they return the same best-fit parameters, chi-squared and degrees of
\* freedom (and the optimizer reports the same result); so do two calls of
\* model_comparison on the same inputs.
C14_SameInputsSameResults ==
    \A i, j \in 1..Len(calls) : calls[i].fn = calls[j].fn => calls[i] = calls[j]

\* both runs are over, on two observations, and the optimizer tried two
\* different vectors in each fit
C14_Witness ==
    /\ Len(calls) = 6
    /\ Len(data) = 2
    /\ stream[1] # stream[2]
    /\ calls[4].returned = calls[1].returned
    /\ calls[4].returned.chi2.v > 0

(* SpecInterp: PowerLawErasure.E on the grid as _compute_evolution stores it
   from a solve, for redshifts below, on and inside the range of the grid *)

\* (Om, Ode) of an evolution towards today's densities
SolvedSamples == {<<30, 70>>, <<50, 50>>}

\* successful solves: the initial condition, then such samples
SolvedOutcomes ==
    {[success |-> TRUE, t |-> a_eval,
      Om |-> [i \in 1..NGrid |-> IF i = 1 THEN Om_init ELSE y[i][1]],
      Ode |-> [i \in 1..NGrid |-> IF i = 1 THEN Ode_init ELSE y[i][2]]] :
        y \in [2..NGrid -> SolvedSamples]}

\* z = -5e-6, 0, 0.5 and 9
InterpRedshifts == {-5, 0, 500000, 9000000}

InitInterp == InitModel

\* the constructor has stored the grid of a successful solve
StoreSolved ==
    /\ pc = "new"
    /\ \E Om0 \in Om0Box, beta \in BetaBox, alpha \in AlphaBox, H0 \in H0Box,
          s \in SolvedOutcomes :
            /\ inst' = StoreGrid(PowerLawErasureFields(Om0, beta, alpha, H0), s)
            /\ sol' = s
    /\ pc' = "ready"
    /\ UNCHANGED <<zarg, ret, pipelineVars>>

\* E is called on it
InterpE ==
    /\ pc = "ready"
    /\ \E z \in InterpRedshifts :
            /\ zarg' = z
            /\ ret' = [fn |-> "E", val |-> E(inst, z), D_L |-> NaN, ier |-> -1,
                       evals |-> {z}, n_valid |-> 0]
    /\ pc' = "returned"
    /\ UNCHANGED <<inst, sol, pipelineVars>>

NextInterp ==
    \/ StoreSolved
    \/ InterpE

SpecInterp == InitInterp /\ [][NextInterp]_vars

\* the value at z of the piecewise-linear function through the samples
\* (zg[i], fp[i]), zg running downwards, held at the edge values outside;
\* rounded to the nearest hundredth
GridValue(z, zg, fp) ==
    LET n == Len(zg)
    IN IF z >= zg[1] THEN fp[1]
       ELSE IF z <= zg[n] THEN fp[n]
       ELSE LET i == CHOOSE h \in 1..(n - 1) : zg[h + 1] <= z /\ z < zg[h]
            IN IF z = zg[i + 1] THEN fp[i + 1]
               ELSE fp[i + 1] + (2 * (fp[i] - fp[i + 1]) * ((z - zg[i + 1]) \div 1000)
                                     + (zg[i] - zg[i + 1]) \div 1000)
                                    \div (2 * ((zg[i] - zg[i + 1]) \div 1000))

Row(z, mu, err, cal) ==
    [zHD |-> z, MU_SH0ES |-> mu, MU_SH0ES_ERR_DIAG |-> err, IS_CALIBRATOR |-> cal]

\* redshifts 0.01 and 0.02, errors 0, 0.5, 1.0 and 1.5, calibrators and not
LoaderRows ==
    {Row(z, mu, err, cal) : z \in {10000, 20000}, mu \in {345, 460}, err \in {0, 5, 10, 15},
                            cal \in {0, 1}}

\* ten rows: three calibrators, two at z <= 0.01, one with an error of 1.5
ExampleFile ==
    [parses |-> TRUE, columns |-> RequiredColumns,
     rows |-> <<Row(20000, 345, 5, 1), Row(30000, 355, 5, 0), Row(5000, 310, 5, 0),
                Row(500000, 423, 2, 0), Row(40000, 361, 5, 1), Row(60000, 370, 15, 0),
                Row(10000, 330, 5, 0), Row(80000, 377, 3, 0), Row(90000, 380, 5, 1),
                Row(100000, 383, 9, 0)>>]

InitLoad ==
    /\ pc = "load"
    /\ inst = NoInstance
    /\ zarg = 0
    /\ ret = NoReturn
    /\ sol = NoSolve
    /\ raw \in GoodFiles(LoaderRows, MaxRows) \cup {ExampleFile} \cup BadFiles(LoaderRows)
    /\ data = <<>>
    /\ de = NoDE
    /\ lcdm = NoFit
    /\ erasure = NoFit
    /\ cmp = NoCmp
    /\ verdict = "none"
    /\ stream = <<>>
    /\ calls = <<>>

NextLoad == Load

SpecLoad == InitLoad /\ [][NextLoad]_vars

\* the load has returned its three columns
Loaded == pc = "fit_lcdm"

\* the indices of the input rows the three conditions let through
Kept ==
    {i \in 1..Len(raw.rows) :
        /\ raw.rows[i].IS_CALIBRATOR = 0
        /\ raw.rows[i].zHD > 10000
        /\ 0 < raw.rows[i].MU_SH0ES_ERR_DIAG
        /\ raw.rows[i].MU_SH0ES_ERR_DIAG < 10}

\* the n-th of them in input order
NthKept(n) == CHOOSE i \in Kept : Cardinality({j \in Kept : j <= i}) = n

\* C17: load_pantheon_data returns exactly the input rows, in input order,
\* with IS_CALIBRATOR == 0, zHD > 0.01 and 0 < MU_SH0ES_ERR_DIAG < 1.0; z, mu
\* and err are aligned row by row, so every returned observation has
\* z > 0.01 and 0 < err < 1.
C17_LoaderKeepsQualityRows ==
    Loaded =>
        /\ Len(data) = Cardinality(Kept)
        /\ \A n \in 1..Len(data) :
               /\ data[n].z = raw.rows[NthKept(n)].zHD
               /\ data[n].mu_obs = raw.rows[NthKept(n)].MU_SH0ES
               /\ data[n].err = raw.rows[NthKept(n)].MU_SH0ES_ERR_DIAG
               /\ data[n].z > 10000
               /\ 0 < data[n].err /\ data[n].err < 10

\* the ten-row file has been loaded and four rows came back
C17_Witness ==
    /\ Loaded
    /\ raw = ExampleFile
    /\ Len(data) = 4
    /\ data[2] = [z |-> 500000, mu_obs |-> 423, err |-> 2]

\* C18: when the file is malformed or lacks zHD, MU_SH0ES, MU_SH0ES_ERR_DIAG
\* or IS_CALIBRATOR, load_pantheon_data raises and returns nothing, and main
\* runs no fit, no comparison and no verdict.
C18_LoadErrorIsFatal ==
    /\ pc # "load"
    /\ \/ ~raw.parses
       \/ \E col \in {"zHD", "MU_SH0ES", "MU_SH0ES_ERR_DIAG", "IS_CALIBRATOR"} :
              col \notin raw.columns
    =>
        /\ pc = "load_raised"
        /\ data = <<>>
        /\ de = NoDE
        /\ calls = <<>>
        /\ lcdm = NoFit
        /\ erasure = NoFit
        /\ cmp = NoCmp
        /\ verdict = "none"

\* the load of a file with rows but no zHD column has raised
C18_Witness ==
    /\ pc = "load_raised"
    /\ raw.parses
    /\ "zHD" \notin raw.columns
    /\ Len(raw.rows) = 1

\* x lies in the box lo[i] <= x[i] <= hi[i]
InBox(x, lo, hi) == Len(x) = Len(lo) /\ \A i \in 1..Len(lo) : lo[i] <= x[i] /\ x[i] <= hi[i]

InLcdmBox(x) == InBox(x, <<10, 60>>, <<50, 80>>)

InErasureBox(x) == InBox(x, <<10, -50, -600, 60>>, <<50, 50, 0, 80>>)

\* C15: every vector an objective is called on, and every best-fit vector a
\* fit returns (the optimizer's result.x and the parameters of the returned
\* model), lies in the box of its family: LambdaCDM Om0 in [0.1, 0.5], H0 in
\* [60, 80]; interacting model Om0 in [0.1, 0.5], beta in [-0.5, 0.5], alpha
\* in [-6.0, 0.0], H0 in [60, 80].
C15_VectorsInsideBox ==
    /\ pc = "fit_lcdm" /\ de.evals >= 1 => InLcdmBox(de.trial) /\ InLcdmBox(de.x)
    /\ pc = "fit_erasure" /\ de.evals >= 1 => InErasureBox(de.trial) /\ InErasureBox(de.x)
    /\ \A i \in 1..Len(calls) :
           /\ calls[i].fn = "fit_lcdm" =>
                  /\ InLcdmBox(calls[i].result.x)
                  /\ InLcdmBox(<<calls[i].returned.model.Om0, calls[i].returned.model.H0>>)
           /\ calls[i].fn = "fit_erasure" =>
                  /\ InErasureBox(calls[i].result.x)
                  /\ InErasureBox(<<calls[i].returned.model.Om0, calls[i].returned.model.beta,
                                    calls[i].returned.model.alpha, calls[i].returned.model.H0>>)

\* both fits have returned, each after its objective was called on two
\* different vectors; the second was the better one for LambdaCDM, the first
\* is kept for the interacting model
C15_Witness ==
    /\ Len(calls) >= 2
    /\ calls[1].result.nfev = 2
    /\ calls[2].result.nfev = 2
    /\ calls[1].result.x = LcdmTrials[stream[2]]
    /\ calls[1].result.x # LcdmTrials[stream[1]]
    /\ calls[2].result.x = ErasureTrials[stream[1]]
    /\ calls[2].result.x # ErasureTrials[stream[2]]

\* C16: when the optimizer stops at its iteration budget without converging,
\* the fit still returns the best point found, and what it returns carries a
\* warning flag that marks it as low-confidence.
C16_UnconvergedFitFlagged ==
    \A i \in 1..Len(calls) :
        calls[i].fn \in {"fit_lcdm", "fit_erasure"} /\ ~calls[i].result.success =>
            /\ calls[i].returned.chi2 =
                   chi_squared(calls[i].returned.model, data).chi2
            /\ "warning" \in DOMAIN calls[i].returned
            /\ calls[i].returned.warning

\* C19: once the dataset has loaded, main runs to its final verdict for every
\* dataset the loader can return, an empty one included: nothing between the
\* load and the verdict raises, and when main is over a verdict was given.
C19_PipelineReachesVerdict ==
    /\ pc # "raised"
    /\ pc = "done" => verdict \in {"FAVORED", "COMPARABLE", "PREFERRED"}

\* the chi-squared of the model the objective has just constructed
ChiOfTrial == chi_squared(inst, data).chi2

\* the objective of fit_erasure has just been called on de.trial
ObjectiveCalled == pc = "fit_erasure" /\ de.evals >= 1

\* C2: the objective of fit_erasure builds a fresh model from the candidate
\* vector and returns exactly 1e10 when that model has failed = True or its
\* chi-squared is nan or infinite, and the chi-squared of that model in every
\* other case; it never raises to the optimizer.
C2_ObjectiveSentinel ==
    ObjectiveCalled =>
        /\ <<inst.Om0, inst.beta, inst.alpha, inst.H0>> = de.trial
        /\ ~IsRaised(de.energy)
        /\ inst.failed => de.energy = Big
        /\ (~inst.failed /\ (IsNaN(ChiOfTrial) \/ IsInf(ChiOfTrial))) => de.energy = Big
        /\ (~inst.failed /\ IsNum(ChiOfTrial)) => de.energy = ChiOfTrial

\* a degenerate candidate whose chi-squared on the data is an ordinary number
\* is given 1e10
C2_Witness ==
    /\ ObjectiveCalled
    /\ inst.failed
    /\ Len(data) >= 1
    /\ IsNum(ChiOfTrial)
    /\ de.energy = Big

\* fit_lcdm has returned
LcdmFitted == pc \in {"fit_erasure", "compare", "plot", "verdict", "done", "raised"}

\* fit_erasure has returned
ErasureFitted == pc \in {"compare", "plot", "verdict", "done", "raised"}

\* C6: the degrees of freedom a fit returns are the number of observations
\* valid for its best-fit model minus its number of free parameters: 2 for
\* fit_lcdm, 4 for fit_erasure.
C6_DegreesOfFreedom ==
    /\ LcdmFitted => lcdm.dof = Cardinality(ValidRows(lcdm.model, data)) - 2
    /\ ErasureFitted => erasure.dof = Cardinality(ValidRows(erasure.model, data)) - 4

\* both fits on two observations: dof 0 and -2
C6_Witness ==
    /\ pc = "compare"
    /\ Len(data) = 2
    /\ lcdm.dof = 0
    /\ erasure.dof = -2

---------------------------------------------------------------------------
(* SpecPure: an instance is built once, a dataset is at hand, and E,
   luminosity_distance, distance_modulus and chi_squared are called on them,
   in any order; calls records each call with the instance and the dataset
   before and after it *)

\* a method that replaces the grids by the fallback ones when it is called
SelfAfterCallRebuilt(self) ==
    IF self.cls = "PowerLawErasure" THEN DegenerateGrid(self) ELSE [self EXCEPT !.H0 = 0]

\* the instance after E, luminosity_distance, distance_modulus or chi_squared
\* has run on it: none of them assigns to an attribute of self
SelfAfterCall(self) == self

\* the dataset after chi_squared has iterated over zip(z_data, mu_data, mu_err)
DataAfterCall(obs) == obs

\* z = 5e-6 (linear branch) and z = 0.5
PureRedshifts == {5, 500000}

\* what fn returns for z (chi_squared takes the dataset, not z)
PureResult(fn, self, z, obs) ==
    CASE fn = "E" -> E(self, z)
      [] fn = "luminosity_distance" -> luminosity_distance(self, z).val
      [] fn = "distance_modulus" -> distance_modulus(self, z)
      [] fn = "chi_squared" -> chi_squared(self, obs).chi2

InitPure ==
    /\ pc = "new"
    /\ inst = NoInstance
    /\ zarg = 0
    /\ ret = NoReturn
    /\ sol = NoSolve
    /\ raw = NoFile
    /\ data \in {load_pantheon_data(file) : file \in GoodFiles(RawRows, MaxRows)}
    /\ de = NoDE
    /\ lcdm = NoFit
    /\ erasure = NoFit
    /\ cmp = NoCmp
    /\ verdict = "none"
    /\ stream = <<>>
    /\ calls = <<>>

PureNewModel ==
    /\ pc = "new"
    /\ \/ \E x \in LcdmCandidates : inst' = LambdaCDM(x[1], x[2]) /\ sol' = sol
       \/ \E x \in ErasureCandidates, s \in SolveIvpOutcomes :
              inst' = PowerLawErasure(x[1], x[2], x[3], x[4], s) /\ sol' = s
    /\ pc' = "ready"
    /\ UNCHANGED <<zarg, ret, raw, data, de, lcdm, erasure, cmp, verdict, stream, calls>>

\* one of the three methods is called with z
PureMethodCall ==
    /\ pc = "ready"
    /\ Len(calls) < MaxRuns
    /\ \E fn \in {"E", "luminosity_distance", "distance_modulus"}, z \in PureRedshifts :
            /\ zarg' = z
            /\ inst' = SelfAfterCall(inst)
            /\ data' = data
            /\ calls' = Append(calls, [fn |-> fn, z |-> z, returned |-> PureResult(fn, inst, z, data),
                                       self_before |-> inst, self_after |-> inst',
                                       data_before |-> data, data_after |-> data'])
    /\ UNCHANGED <<pc, ret, sol, raw, de, lcdm, erasure, cmp, verdict, stream>>

\* chi_squared is called with the instance and the dataset
PureChiSquared ==
    /\ pc = "ready"
    /\ Len(calls) < MaxRuns
    /\ zarg' = 0
    /\ inst' = SelfAfterCall(inst)
    /\ data' = DataAfterCall(data)
    /\ calls' = Append(calls, [fn |-> "chi_squared", z |-> 0,
                               returned |-> PureResult("chi_squared", inst, 0, data),
                               self_before |-> inst, self_after |-> inst',
                               data_before |-> data, data_after |-> data'])
    /\ UNCHANGED <<pc, ret, sol, raw, de, lcdm, erasure, cmp, verdict, stream>>

NextPure ==
    \/ PureNewModel
    \/ PureMethodCall
    \/ PureChiSquared

SpecPure == InitPure /\ [][NextPure]_vars

\* C21: chi_squared, E, luminosity_distance and distance_modulus are pure:
\* after any calls in any order the instance (parameters, failed, z_grid,
\* Om_grid, Ode_grid) is the one construction left and the dataset is the one
\* loaded, and two calls with the same arguments returned the same result.
C21_CallsArePure ==
    /\ \A i \in 1..Len(calls) :
           /\ calls[i].self_after = calls[1].self_before
           /\ calls[i].data_after = calls[1].data_before
           /\ inst = calls[i].self_after
           /\ data = calls[i].data_after
    /\ \A i, j \in 1..Len(calls) :
           calls[i].fn = calls[j].fn /\ calls[i].z = calls[j].z =>
               calls[i].returned = calls[j].returned

\* on a PowerLawErasure and two observations, the same function was called
\* twice with the same argument and returned a number
C21_Witness ==
    /\ Len(calls) >= 2
    /\ inst.cls = "PowerLawErasure"
    /\ Len(data) = 2
    /\ \E i, j \in 1..Len(calls) :
           /\ i < j
           /\ calls[i].fn = calls[j].fn
           /\ calls[i].z = calls[j].z
           /\ IsNum(calls[j].returned)

---------------------------------------------------------------------------
(* SpecPar: MaxEvals calls of the two objectives are in flight on one dataset
   and their steps interleave in any order. calls[p] is the p-th call: its
   vector, how far it has got, the model it built and what it returned; inst is
   the instance built last, by whichever call *)

\* vectors of both families to evaluate
ParVectors ==
    {[fn |-> "fit_lcdm.objective", x |-> LcdmTrials[1]],
     [fn |-> "fit_lcdm.objective", x |-> LcdmTrials[4]],
     [fn |-> "fit_erasure.objective", x |-> ErasureTrials[1]],
     [fn |-> "fit_erasure.objective", x |-> ErasureTrials[3]]}

InFlight(v) == [fn |-> v.fn, x |-> v.x, stage |-> "called", model |-> NoInstance,
                returned |-> NaN]

\* an objective that reads the instance built last, whoever built it
ModelSeenByShared(p) == inst

\* the model an objective evaluates is the local it has just constructed
ModelSeenBy(p) == calls[p].model

\* the value an objective returns for the model it holds
ObjectiveValue(fn, model, obs) ==
    IF fn = "fit_lcdm.objective" THEN lcdm_objective(model, obs)
    ELSE erasure_objective(model, obs)

InitPar ==
    /\ pc = "objectives"
    /\ inst = NoInstance
    /\ zarg = 0
    /\ ret = NoReturn
    /\ sol = NoSolve
    /\ raw = NoFile
    /\ data \in {load_pantheon_data(file) : file \in GoodFiles(RawRows, MaxRows)}
    /\ de = NoDE
    /\ lcdm = NoFit
    /\ erasure = NoFit
    /\ cmp = NoCmp
    /\ verdict = "none"
    /\ stream = <<>>
    /\ calls \in [1..MaxEvals -> {InFlight(v) : v \in ParVectors}]

\* call p constructs its model
ParConstruct ==
    \E p \in 1..Len(calls) :
        /\ calls[p].stage = "called"
        /\ \E s \in SolveIvpOutcomes :
               LET x == calls[p].x
                   model == IF calls[p].fn = "fit_lcdm.objective"
                            THEN LambdaCDM(x[1], x[2])
                            ELSE PowerLawErasure(x[1], x[2], x[3], x[4], s)
               IN /\ inst' = model
                  /\ calls' = [calls EXCEPT ![p].stage = "built", ![p].model = model]
        /\ UNCHANGED <<pc, zarg, ret, sol, raw, data, de, lcdm, erasure, cmp, verdict, stream>>

\* call p computes the chi-squared of its model on the dataset and returns
ParReturn ==
    \E p \in 1..Len(calls) :
        /\ calls[p].stage = "built"
        /\ calls' = [calls EXCEPT ![p].stage = "returned",
                                  ![p].returned = ObjectiveValue(calls[p].fn, ModelSeenBy(p),
                                                                 data)]
        /\ UNCHANGED <<pc, inst, zarg, ret, sol, raw, data, de, lcdm, erasure, cmp, verdict,
                       stream>>

NextPar ==
    \/ ParConstruct
    \/ ParReturn

SpecPar == InitPar /\ [][NextPar]_vars

\* what the objective fn gives for x when it is evaluated alone
SequentialValue(fn, x, obs) ==
    IF fn = "fit_lcdm.objective" THEN lcdm_objective(LambdaCDM(x[1], x[2]), obs)
    ELSE erasure_objective(
             PowerLawErasure(x[1], x[2], x[3], x[4], CHOOSE s \in SolveIvpOutcomes : TRUE), obs)

\* C22: objective evaluations share no mutable state: whatever the
\* interleaving of the calls of the two fits' objectives, each returns for its
\* vector what it returns when evaluated alone, and the dataset is only read.
C22_EvaluationsIndependent ==
    \A p \in 1..Len(calls) :
        calls[p].stage = "returned" =>
            calls[p].returned = SequentialValue(calls[p].fn, calls[p].x, data)

\* two calls with different vectors of LambdaCDM were both under way before
\* the first returned, on two observations
C22_Witness ==
    /\ Len(data) = 2
    /\ \E p, q \in 1..Len(calls) :
           /\ calls[p].fn = "fit_lcdm.objective"
           /\ calls[q].fn = "fit_lcdm.objective"
           /\ calls[p].x # calls[q].x
           /\ calls[p].stage = "returned"
           /\ calls[q].stage = "returned"
           /\ calls[p].returned # calls[q].returned
           /\ inst # calls[p].model

---------------------------------------------------------------------------
(* SpecMono: luminosity_distance is called on one LambdaCDM inside the bounds
   of fit_lcdm at several redshifts of (0, 5]; calls records each redshift with
   the distance returned. (Every PowerLawErasure the constructor returns is
   degenerate, so LambdaCDM is the only valid expansion history there is.) *)

\* 5e-6 and 9e-6 on the linear branch, 1e-5 and 1.1e-5 just on the quadrature
\* branch, 0.02, 0.5, 1 and 5
MonoRedshifts == {5, 9, 10, 11, 20000, 500000, 1000000, 5000000}

InitMono == InitModel

MonoNewModel ==
    /\ pc = "new"
    /\ \E Om0 \in Om0Box, H0 \in H0Box : inst' = LambdaCDM(Om0, H0)
    /\ pc' = "ready"
    /\ UNCHANGED <<zarg, ret, sol, pipelineVars>>

MonoCall ==
    /\ pc = "ready"
    /\ Len(calls) < MaxRuns
    /\ \E z \in MonoRedshifts :
            /\ zarg' = z
            /\ calls' = Append(calls, [fn |-> "luminosity_distance", z |-> z,
                                       returned |-> luminosity_distance(inst, z).val])
    /\ UNCHANGED <<pc, inst, ret, sol, raw, data, de, lcdm, erasure, cmp, verdict, stream>>

NextMono ==
    \/ MonoNewModel
    \/ MonoCall

SpecMono == InitMono /\ [][NextMono]_vars

\* C23: for a LambdaCDM inside the bounds luminosity_distance is strictly
\* increasing in z over (0, 5], also from the linear branch below z = 1e-5 to
\* the quadrature branch from 1e-5 on.
C23_DistanceIncreasing ==
    \A i, j \in 1..Len(calls) :
        0 < calls[i].z /\ calls[i].z < calls[j].z /\ calls[j].z <= 5000000 =>
            /\ IsNum(calls[i].returned)
            /\ IsNum(calls[j].returned)
            /\ calls[i].returned.v < calls[j].returned.v

\* the distance at 9e-6 came from the linear branch, the one at 1e-5 from the
\* quadrature, on the densest model of the box
C23_Witness ==
    /\ Len(calls) = 2
    /\ inst.Om0 = 50
    /\ calls[1].z = 10
    /\ calls[2].z = 9
    /\ calls[2].returned.v < calls[1].returned.v

---------------------------------------------------------------------------
(* The derivative rule of the density ODE. Its quantities span 1e-10 to 1e5,
   so they are decimal floats here: [m, e] is m * 10^e with four digits in m *)

RECURSIVE DecNorm(_, _)
DecNorm(m, e) ==
    IF m = 0 THEN [m |-> 0, e |-> 0]
    ELSE IF Abs(m) >= 10000
         THEN DecNorm((IF m < 0 THEN 0 - 1 ELSE 1) * (Abs(m) \div 10), e + 1)
    ELSE IF Abs(m) < 1000 THEN DecNorm(m * 10, e - 1)
    ELSE [m |-> m, e |-> e]

DecNeg(x) == [m |-> 0 - x.m, e |-> x.e]

DecAbs(x) == [m |-> Abs(x.m), e |-> x.e]

DecMul(x, y) == DecNorm(x.m * y.m, x.e + y.e)

\* x / y for y # 0
DecDiv(x, y) ==
    DecNorm((IF (x.m < 0) = (y.m < 0) THEN 1 ELSE 0 - 1)
                * ((Abs(x.m) * 10000) \div Abs(y.m)),
            x.e - y.e - 4)

\* hi + lo for hi.e >= lo.e: a term more than five decades down is lost
DecAddOrdered(hi, lo) ==
    IF hi.e - lo.e > 5 THEN hi ELSE DecNorm(hi.m * Pow10(hi.e - lo.e) + lo.m, lo.e)

DecAdd(x, y) ==
    IF x.m = 0 THEN y
    ELSE IF y.m = 0 THEN x
    ELSE IF x.e >= y.e THEN DecAddOrdered(x, y)
    ELSE DecAddOrdered(y, x)

DecSub(x, y) == DecAdd(x, DecNeg(y))

DecLeq(x, y) == DecSub(y, x).m >= 0

DecLt(x, y) == DecSub(y, x).m > 0

DecMin(x, y) == IF DecLeq(x, y) THEN x ELSE y

DecMax(x, y) == IF DecLeq(x, y) THEN y ELSE x

\* np.clip(v, lo, hi) = minimum(maximum(v, lo), hi)
DecClip(v, lo, hi) == DecMin(DecMax(v, lo), hi)

\* np.sqrt of x > 0
DecSqrt(x) ==
    IF x.e % 2 = 0
    THEN DecNorm(SqrtSearch(x.m * 10000, 0, 46340), (x.e - 4) \div 2)
    ELSE DecNorm(SqrtSearch(x.m * 100000, 0, 46340), (x.e - 5) \div 2)

\* x ** n for an integer n >= 0
RECURSIVE DecPow(_, _)
DecPow(x, n) == IF n = 0 THEN DecNorm(1, 0) ELSE DecMul(x, DecPow(x, n - 1))

DecZero == DecNorm(0, 0)

\* 1e-10 and 10.0, the bounds of the two clips at the head of derivatives
DensityFloor == DecNorm(1, -10)
DensityCeiling == DecNorm(10, 0)

\* a clip that only caps
ClipDensityCapOnly(v) == DecMin(v, DensityCeiling)

\* np.clip(Om, 1e-10, 10.0)
ClipDensity(v) == DecClip(v, DensityFloor, DensityCeiling)

\* a ** (-alpha), capped at 1e6 when alpha < 0 and a < 0.01; alpha is in
\* hundredths and a whole number in the model
a_alpha_term(self, a) ==
    IF self.alpha < 0 /\ DecLt(a, DecNorm(1, -2))
    THEN DecMin(DecPow(a, (0 - self.alpha) \div 100), DecNorm(1, 6))
    ELSE DecPow(a, (0 - self.alpha) \div 100)

\* 100 * Om / a, the bound of the clamp
ClampBound(Om, a) == DecDiv(DecMul(DecNorm(100, 0), Om), a)

\* an interaction term that is left as computed
ClampInteractionOff(Q_term, Om, a) == Q_term

\* np.clip(Q_term, -100 * Om / a, 100 * Om / a)
ClampInteraction(Q_term, Om, a) ==
    DecClip(Q_term, DecNeg(ClampBound(Om, a)), ClampBound(Om, a))

\* (beta * Om * a_alpha_term) / (a**4 * E)
InteractionTerm(self, a, Om, E_a) ==
    DecDiv(DecMul(DecMul(DecNorm(self.beta, -2), Om), a_alpha_term(self, a)),
           DecMul(DecPow(a, 4), E_a))

\* the end of derivatives, from the clamped Q_term: the two derivatives, with
\* the locals they were computed from
DerivativesOf(a, Om, Ode, E_squared, E_a, Q_term) ==
    [returns |-> <<DecSub(DecNeg(DecDiv(DecMul(DecNorm(3, 0), Om), a)), Q_term), Q_term>>,
     early |-> FALSE, Om |-> Om, Ode |-> Ode, E_squared |-> E_squared, E |-> E_a,
     Q_term |-> Q_term, lower |-> DecNeg(ClampBound(Om, a)), upper |-> ClampBound(Om, a)]

\* derivatives from E_squared on: [0, 0] at once when E_squared < 1e-10
DerivativesFrom(self, a, Om, Ode, E_squared) ==
    IF DecLt(E_squared, DensityFloor)
    THEN [returns |-> <<DecZero, DecZero>>, early |-> TRUE, Om |-> Om, Ode |-> Ode,
          E_squared |-> E_squared, E |-> DecZero, Q_term |-> DecZero,
          lower |-> DecNeg(ClampBound(Om, a)), upper |-> ClampBound(Om, a)]
    ELSE DerivativesOf(a, Om, Ode, E_squared, DecSqrt(E_squared),
                       ClampInteraction(InteractionTerm(self, a, Om, DecSqrt(E_squared)),
                                        Om, a))

\* derivatives(a, y) once the two densities are clipped
DerivativesClipped(self, a, Om, Ode) ==
    DerivativesFrom(self, a, Om, Ode, DecAdd(DecDiv(Om, DecPow(a, 3)), Ode))

\* PowerLawErasure._compute_evolution.derivatives
derivatives(self, a, y) == DerivativesClipped(self, a, ClipDensity(y[1]), ClipDensity(y[2]))

(* SpecDeriv: during a construction solve_ivp calls derivatives, at any scale
   factor of [0.01, 1] and on any state *)

\* a = 0.01, 0.1, 0.5 and 1
ScaleFactors == {DecNorm(1, -2), DecNorm(1, -1), DecNorm(5, -1), DecNorm(1, 0)}

\* densities the integrator may hand over: negative, zero, below the floor,
\* the initial conditions, the ceiling and beyond
StateDensities ==
    {DecNorm(-1, 0), DecZero, DecNorm(1, -12), DecNorm(1, -2), DecNorm(99, -2),
     DecNorm(10, 0), DecNorm(50, 0)}

InitDeriv ==
    /\ pc = "solving"
    /\ inst \in {PowerLawErasureFields(x[1], x[2], x[3], x[4]) : x \in ErasureCandidates}
    /\ zarg = 0
    /\ ret = NoReturn
    /\ sol = NoSolve
    /\ PipelineIdle

DerivativesCall ==
    /\ pc = "solving"
    /\ calls = <<>>
    /\ \E a \in ScaleFactors, Om \in StateDensities, Ode \in StateDensities :
            calls' = <<[fn |-> "derivatives", a |-> a, y |-> <<Om, Ode>>,
                        returned |-> derivatives(inst, a, <<Om, Ode>>)]>>
    /\ UNCHANGED <<pc, inst, zarg, ret, sol, raw, data, de, lcdm, erasure, cmp, verdict,
                   stream>>

NextDeriv == DerivativesCall

SpecDeriv == InitDeriv /\ [][NextDeriv]_vars

\* derivatives has been called
DerivCalled == Len(calls) = 1 /\ calls[1].fn = "derivatives"

\* C24: in derivatives, for every a in [0.01, 1] and every state, both
\* densities are clipped to [1e-10, 10] first, the interaction term satisfies
\* |Q_term| <= 100 * Om / a after the clamp, dOm/da = -3 * Om / a - Q_term and
\* dOde/da = +Q_term, so that the two add up to -3 * Om / a.
C24_DerivativeRule ==
    DerivCalled =>
        LET r == calls[1].returned
            drag == DecNeg(DecDiv(DecMul(DecNorm(3, 0), r.Om), calls[1].a))
            bound == DecDiv(DecMul(DecNorm(100, 0), r.Om), calls[1].a)
            \* two units in the last of the four digits of dOm/da
            slack == DecMul(DecNorm(2, -3), DecAbs(r.returns[1]))
        IN /\ r.Om = DecMin(DecMax(calls[1].y[1], DecNorm(1, -10)), DecNorm(10, 0))
           /\ r.Ode = DecMin(DecMax(calls[1].y[2], DecNorm(1, -10)), DecNorm(10, 0))
           /\ DecLeq(r.Q_term, bound)
           /\ DecLeq(DecNeg(bound), r.Q_term)
           /\ r.returns[1] = DecSub(drag, r.Q_term)
           /\ r.returns[2] = r.Q_term
           /\ DecLeq(DecSub(DecAdd(r.returns[1], r.returns[2]), drag), slack)
           /\ DecLeq(DecNeg(slack), DecSub(DecAdd(r.returns[1], r.returns[2]), drag))

\* at a = 0.01 with the initial densities and alpha = 0 the interaction term
\* was cut back to the bound, from a state given with a negative Ode
C24_Witness ==
    /\ DerivCalled
    /\ calls[1].a = DecNorm(1, -2)
    /\ inst.alpha = 0
    /\ calls[1].y[1] = DecNorm(99, -2)
    /\ calls[1].y[2] = DecNorm(-1, 0)
    /\ calls[1].returned.Ode = DecNorm(1, -10)
    /\ calls[1].returned.Q_term \in {calls[1].returned.lower, calls[1].returned.upper}
    /\ calls[1].returned.Q_term.m # 0

\* C29: derivatives is well defined for every state and every a in [0.01, 1]
\* with alpha in [-6, 0]: after the clips E_squared = Om / a^3 + Ode is at
\* least 1e-10, so the early return is not taken, the square root sees no
\* negative value, E > 0 and a^4 * E is not zero; and the lower bound of the
\* clamp, -100 * Om / a, does not exceed the upper one.
C29_DerivativesWellDefined ==
    DerivCalled =>
        LET r == calls[1].returned
        IN /\ DecLeq(DecNorm(1, -10), r.E_squared)
           /\ ~r.early
           /\ r.E.m > 0
           /\ DecMul(DecPow(calls[1].a, 4), r.E).m # 0
           /\ DecLeq(r.lower, r.upper)
           /\ r.lower = DecNeg(DecDiv(DecMul(DecNorm(100, 0), r.Om), calls[1].a))
           /\ r.upper = DecDiv(DecMul(DecNorm(100, 0), r.Om), calls[1].a)

\* at a = 1 on a state with a negative Om and a zero Ode both clips gave the
\* floor and E_squared is 2e-10
C29_Witness ==
    /\ DerivCalled
    /\ calls[1].a = DecNorm(1, 0)
    /\ calls[1].y = <<DecNorm(-1, 0), DecZero>>
    /\ calls[1].returned.E_squared = DecNorm(2, -10)
    /\ ~calls[1].returned.early
    /\ inst.alpha = -600

---------------------------------------------------------------------------
(* Claims about the order of the steps of main (checked under Spec) *)

\* the steps of main in their order, with the two ways it can end early
StepOrder == <<"load", "fit_lcdm", "fit_erasure", "compare", "plot", "verdict", "done">>

StepIndex(p) == CHOOSE i \in 1..Len(StepOrder) : StepOrder[i] = IF p = "raised" THEN "plot"
                                                                ELSE IF p = "load_raised" THEN "load"
                                                                ELSE p

\* C25: a run of main is one pass in a fixed order: the dataset is loaded
\* before any fit, fit_lcdm and fit_erasure have both returned before
\* model_comparison starts, model_comparison has returned before the verdict
\* is printed, the dataset stays as loaded, and model_comparison is given just
\* the chi-squared and dof the two fits returned.
C25_SinglePassInOrder ==
    /\ Len(calls) <= 3
    /\ \A i \in 1..Len(calls) : calls[i].fn = <<"fit_lcdm", "fit_erasure", "model_comparison">>[i]
    /\ Len(calls) = (IF StepIndex(pc) <= 2 THEN 0
                     ELSE IF StepIndex(pc) = 3 THEN 1
                     ELSE IF StepIndex(pc) = 4 THEN 2 ELSE 3)
    /\ de.evals > 0 => pc \in {"fit_lcdm", "fit_erasure"}
    /\ pc \notin {"load", "load_raised"} =>
           data = Columns(SelectSeq(raw.rows, QualityCut))
    /\ Len(calls) >= 1 => lcdm = calls[1].returned
    /\ Len(calls) >= 2 => erasure = calls[2].returned
    /\ Len(calls) = 3 =>
           /\ calls[3].args = <<calls[1].returned.chi2, calls[1].returned.dof,
                                calls[2].returned.chi2, calls[2].returned.dof>>
           /\ cmp = calls[3].returned
    /\ Len(calls) < 3 => cmp = NoCmp
    /\ verdict # "none" <=> pc = "done"

\* the verdict is out, after two fits with different chi-squared and
\* different dof on two observations
C25_Witness ==
    /\ pc = "done"
    /\ Len(data) = 2
    /\ Len(calls) = 3
    /\ calls[1].returned.dof # calls[2].returned.dof
    /\ calls[1].returned.chi2 # calls[2].returned.chi2
    /\ verdict \in {"FAVORED", "COMPARABLE", "PREFERRED"}

---------------------------------------------------------------------------
(* Claims about what construction accepts (checked under SpecModel) *)

\* the grid as stored from the solve that construction ran, before validation
StoredFromSolve == StoreGrid(PowerLawErasureFields(inst.Om0, inst.beta, inst.alpha, inst.H0), sol)

\* C26: construction of a PowerLawErasure can succeed: the first stored
\* sample, the initial condition (z = 99, Om = 0.99, Ode = 0.01), passes the
\* check |Om / (1 + z)^3 + Ode - 1| <= 0.5, and an instance whose solve
\* succeeded and whose later samples are non-negative and pass the check is
\* not marked failed.
C26_InitialConditionAccepted ==
    Built /\ sol.success =>
        /\ StoredFromSolve.Om_grid[1] = 99
        /\ StoredFromSolve.Ode_grid[1] = 1
        /\ Abs(total_omega(StoredFromSolve, 1) - 100) <= 50
        /\ (/\ ~NegativeDensities(StoredFromSolve)
            /\ \A i \in 2..NGrid : Abs(total_omega(StoredFromSolve, i) - 100) <= 50)
           => ~inst.failed

\* every PowerLawErasure the constructor returns is marked failed
AlwaysFailed == Built => inst.failed

---------------------------------------------------------------------------
(* Claims about what the fits and main report (checked under Spec) *)

\* C27: the chi-squared a fit returns for its best-fit parameters is the value
\* its own objective gave to those parameters (the optimizer's result.fun):
\* for fit_lcdm always, for fit_erasure also when the best-fit instance is
\* degenerate and the objective gave 1e10.
C27_ReturnedChi2IsObjectiveValue ==
    \A i \in 1..Len(calls) :
        calls[i].fn \in {"fit_lcdm", "fit_erasure"} =>
            calls[i].returned.chi2 = calls[i].result.fun

\* what holds of fit_lcdm alone
LcdmReturnsObjectiveValue ==
    \A i \in 1..Len(calls) :
        calls[i].fn = "fit_lcdm" => calls[i].returned.chi2 = calls[i].result.fun

(* SpecFinal: main from the call of model_comparison on, with what two fits
   can return on a dataset that is not empty *)

InitFinal ==
    /\ pc = "compare"
    /\ inst = NoInstance
    /\ zarg = 0
    /\ ret = NoReturn
    /\ sol = NoSolve
    /\ raw = NoFile
    /\ data \in {load_pantheon_data(file) : file \in GoodFiles(RawRows, MaxRows)} \ {<<>>}
    /\ de = NoDE
    /\ lcdm \in {f \in FitReturns(LambdaCDM(30, 60), k_lcdm) : f.n_valid = Len(data)}
    /\ erasure \in {f \in FitReturns(PowerLawErasure(30, 50, -600, 60,
                                                     CHOOSE s \in SolveIvpOutcomes : TRUE),
                                     k_erasure) : f.n_valid = Len(data)}
    /\ cmp = NoCmp
    /\ verdict = "none"
    /\ stream = <<>>
    /\ calls = <<>>

NextFinal ==
    \/ Compare
    \/ Plot
    \/ Verdict

SpecFinal == InitFinal /\ [][NextFinal]_vars

\* C28: the verdict main prints agrees with the classification of
\* delta_chi2 by model_comparison: FAVORED exactly when the comparison
\* reported strong evidence for the interacting model, PREFERRED (the theory
\* "falsified") exactly when it reported LambdaCDM preferred, delta_chi2 <= 0.
C28_VerdictAgreesWithComparison ==
    pc = "done" =>
        /\ verdict = "FAVORED" <=> cmp.verdict = "strong"
        /\ verdict = "PREFERRED" <=> cmp.verdict = "lcdm"

\* what holds: FAVORED goes with strong evidence
FavoredIffStrong == pc = "done" => (verdict = "FAVORED" <=> cmp.verdict = "strong")

---------------------------------------------------------------------------
(* SpecTwin: two PowerLawErasure instances are built with the same beta,
   alpha and H0 and different Om0, then the same method is called on both with
   the same z. calls[1] and calls[2] are the two instances with what the
   method returned. solve_ivp is run for each on its own. *)

Twin(self) == [fn |-> "none", self |-> self, z |-> 0, returned |-> NaN]

InitTwin == InitModel

TwinConstruct ==
    /\ pc = "new"
    /\ \E Om0 \in Om0Box, Om0_other \in Om0Box, beta \in BetaBox, alpha \in AlphaBox,
          H0 \in H0Box, s \in SolveIvpOutcomes, s_other \in SolveIvpOutcomes :
            /\ Om0 # Om0_other
            /\ inst' = PowerLawErasure(Om0, beta, alpha, H0, s)
            /\ sol' = s
            /\ calls' = <<Twin(PowerLawErasure(Om0, beta, alpha, H0, s)),
                          Twin(PowerLawErasure(Om0_other, beta, alpha, H0, s_other))>>
    /\ pc' = "ready"
    /\ UNCHANGED <<zarg, ret, raw, data, de, lcdm, erasure, cmp, verdict, stream>>

TwinCall ==
    /\ pc = "ready"
    /\ \E fn \in {"E", "luminosity_distance", "distance_modulus"}, z \in Redshifts :
            /\ zarg' = z
            /\ calls' = [i \in 1..2 |->
                            [calls[i] EXCEPT !.fn = fn, !.z = z,
                                             !.returned = PureResult(fn, calls[i].self, z, <<>>)]]
    /\ pc' = "returned"
    /\ UNCHANGED <<inst, ret, sol, raw, data, de, lcdm, erasure, cmp, verdict, stream>>

NextTwin ==
    \/ TwinConstruct
    \/ TwinCall

SpecTwin == InitTwin /\ [][NextTwin]_vars

\* C30: the grids and E(z) of a PowerLawErasure do not depend on Om0: two
\* instances built with the same beta, alpha and H0 and different Om0 have the
\* same failed flag, z_grid, Om_grid and Ode_grid, and E, luminosity_distance
\* and distance_modulus return the same for both at every z.
C30_IndependentOfOm0 ==
    pc # "new" =>
        /\ calls[1].self.failed = calls[2].self.failed
        /\ calls[1].self.z_grid = calls[2].self.z_grid
        /\ calls[1].self.Om_grid = calls[2].self.Om_grid
        /\ calls[1].self.Ode_grid = calls[2].self.Ode_grid
        /\ calls[1].returned = calls[2].returned

\* the distance modulus at z = 0.5 of two instances with Om0 = 0.1 and 0.5
C30_Witness ==
    /\ pc = "returned"
    /\ calls[1].self.Om0 = 10
    /\ calls[2].self.Om0 = 50
    /\ calls[1].self.beta = calls[2].self.beta
    /\ calls[1].self.alpha = calls[2].self.alpha
    /\ calls[1].self.H0 = calls[2].self.H0
    /\ calls[1].fn = "distance_modulus"
    /\ calls[1].z = 500000
    /\ IsNum(calls[1].returned)
    /\ IsNum(calls[2].returned)

===========================================================================
